---- MODULE Spec2Model ----
(***************************************************************************)
(* State-machine model of the MVCCP protocol engine (haidar-88/Capstone).  *)
(*                                                                         *)
(* Time is simulation time in ticks of 0.5 s (the finest granule used by   *)
(* the configuration, RETRY_MAX_JITTER).  Every handler runs at the        *)
(* context's current_time, which the adapter sets from the simulator clock *)
(* before it dispatches a tick or a packet; the model keeps that clock in  *)
(* the variable now.                                                       *)
(***************************************************************************)
EXTENDS Integers, Sequences, FiniteSets, TLC

----------------------------------------------------------------------------
(* Bounds *)

MaxTime == 70          \* last simulation tick explored by SpecC
MaxTimeCF == 72        \* last simulation tick explored by SpecCF
MaxTimeN == 11         \* last simulation tick explored by SpecN
MaxTimeM == 1          \* last simulation tick explored by SpecM
MaxSeqM == 1           \* largest seq_num of the PAs of SpecM
MaxPATime == 0         \* last tick at which SpecC delivers a provider announcement
MaxTimeBL == 120       \* last simulation tick explored by SpecBL
MaxCost == 2           \* largest total_cost an evaluation yields
MaxTimePA == 2         \* last simulation tick explored by SpecPA
MaxSeq == 2            \* largest seq_num of a received PA
MaxTTL == 1            \* largest TTL of a received PA
MaxPrevHops == 1       \* most PREVIOUS_HOP TLVs in the payload of a received PA
MaxTimeHS == 9         \* last simulation tick explored by SpecHS
MaxInbox == 2          \* packets a node's receive queue can hold (SpecHS)
MaxTS == 14            \* largest timestamp passed to update_time (SpecT)
MaxTimePH == 14        \* last simulation tick explored by SpecPH
MaxTimeRH == 22        \* last simulation tick explored by SpecRH
MaxTimeV == 12         \* last simulation tick explored by SpecV
SeenCap == 1           \* MAX_SEEN_MESSAGES (10000 in the configuration) at the scale of SpecPA

----------------------------------------------------------------------------
(* Program constants *)

TicksPerSecond == 2
NoTime == -1                                        \* Python None for a time
None == "None"                                      \* Python None for an id

ACCEPT_TIMEOUT == 5 * TicksPerSecond                \* ConsumerHandler.ACCEPT_TIMEOUT = 5.0
ACKACK_TIMEOUT == 3 * TicksPerSecond                \* ConsumerHandler.ACKACK_TIMEOUT = 3.0
RETRY_BASE_DELAY == 1 * TicksPerSecond              \* 1.0 s
RETRY_MAX_JITTER == TicksPerSecond \div 2           \* 0.5 s
RETRY_MAX_RETRIES == 3
BLACKLIST_DURATION == 30 * TicksPerSecond           \* 30.0 s
PROVIDER_TIMEOUT == 10 * TicksPerSecond             \* 10.0 s

Consumers == {"C1", "C2"}
PlatoonProviders == {"P1"}                          \* provider_type PLATOON_HEAD
RREHProviders == {"R1"}                             \* provider_type RREH
Providers == PlatoonProviders \cup RREHProviders
Nodes == Consumers \cup PlatoonProviders             \* nodes that run the protocol stack
CostVals == 1 .. MaxCost                            \* total_cost values an evaluation can yield

----------------------------------------------------------------------------
VARIABLES
    now,          \* MVCCPContext.current_time (simulation clock, ticks)
    role,         \* MVCCPContext.node_role, per node
    cstate,       \* MVCCPContext.consumer_state, per consumer
    session,      \* ConsumerHandler.current_session, per consumer
    blacklist,    \* ConsumerHandler.blacklisted_providers, per consumer
    ptable,       \* ProviderTable.providers, per consumer
    out,          \* packets handed to send_callback by the last step
    op,           \* the operation the last step ran: name, node, packet
    hs,           \* history: progress of the consumer's handshake (0..4)
    hsProv,       \* history: provider the JOIN_OFFER of the session went to
    resends,      \* history: retransmissions made in the session
    blAt,         \* history: time a provider was last blacklisted
    cleared,      \* history: finish_charging ran since that blacklisting
    ph,           \* PlatoonHeadHandler fields and context.platoon_members, per head
    inbox,        \* packets received by a node's socket and not yet dispatched
    ackFor,       \* history: consumers whose ACK a head answered with ACKACK
    seen_messages,      \* ProviderAnnouncementHandler.seen_messages (its keys), per node
    mpr_selector_set,   \* MVCCPContext.mpr_selector_set, per node
    pa_receive_count,   \* MVCCPContext.pa_receive_count, per node
    pa_receive_window_start,  \* MVCCPContext.pa_receive_window_start, per node
    paRecv,       \* history: (sender_id, seq_num) pairs of the PAs a node received
    platoon,      \* a Platoon object: head_node, nodes, node_number
    shareable,    \* Node.shareable_energy() of every vehicle
    rreh,         \* RREHHandler fields, context.rreh_state and rreh_operational_state
    veh,          \* one vehicle: its context's role fields, its node's energy, its Layer D handler
    vhist,        \* history: when the vehicle became a member, and whether a beacon came since
    snapshot,     \* NeighborTable.get_snapshot(): per neighbour, its 2-hop list and QoS score
    mpr_set,      \* MVCCPContext.mpr_set
    lk,           \* one RWLock: its mutex, _readers, the condition's waiters, each thread's position
    route,        \* one Platoon.edge_graph and what the energy routing returned on it
    wire,         \* one message, the buffer it was encoded to and what decode made of a buffer
    nt            \* one NeighborTable: neighbors, _last_prune_time, and what its calls did

cvars == <<now, role, cstate, session, blacklist, ptable, out, op,
           hs, hsProv, resends, blAt, cleared>>

hvars == <<ph, inbox, ackFor>>

pvars == <<seen_messages, mpr_selector_set, pa_receive_count,
           pa_receive_window_start, paRecv>>

yvars == <<rreh, veh, vhist, snapshot, mpr_set>>

zvars == <<lk, route, wire, nt>>

xvars == <<platoon, shareable, yvars, zvars>>

vars == <<cvars, hvars, pvars, xvars>>

----------------------------------------------------------------------------
(* Wire messages (src/src/messages/messages.py): only the header fields   *)
(* and TLVs the Layer-C handlers read.                                     *)

JoinOfferMsg(c) ==
    [type |-> "JOIN_OFFER", sender_id |-> c, consumer_id |-> c,
     provider_id |-> None, meeting_point |-> None]

JoinAcceptMsg(p) ==
    [type |-> "JOIN_ACCEPT", sender_id |-> p, consumer_id |-> None,
     provider_id |-> p, meeting_point |-> p]

AckMsg(c) ==
    [type |-> "ACK", sender_id |-> c, consumer_id |-> c,
     provider_id |-> None, meeting_point |-> None]

AckAckMsg(p) ==
    [type |-> "ACKACK", sender_id |-> p, consumer_id |-> None,
     provider_id |-> p, meeting_point |-> None]

PlatoonBeaconMsg(p) ==
    [type |-> "PLATOON_BEACON", sender_id |-> p, consumer_id |-> None,
     provider_id |-> None, meeting_point |-> None]

PlatoonAnnounceMsg(p) ==
    [type |-> "PLATOON_ANNOUNCE", sender_id |-> p, consumer_id |-> None,
     provider_id |-> None, meeting_point |-> None]

----------------------------------------------------------------------------
(* ProviderTable (src/src/protocol/layer_b/provider_table.py) *)

NoEntry == [timestamp |-> NoTime, cap |-> FALSE]

\* update_provider: the entry written; cap is has_capacity() of the entry
\* built from the announced fields
NewEntry(cap) == [timestamp |-> now, cap |-> cap]

\* _clean_stale_unsafe: drop entries older than PROVIDER_TIMEOUT
CleanStale(tbl) ==
    [p \in Providers |->
        IF tbl[p] # NoEntry /\ now - tbl[p].timestamp > PROVIDER_TIMEOUT
        THEN NoEntry ELSE tbl[p]]

\* get_providers_with_capacity, on an already cleaned table
WithCapacity(tbl) == {p \in Providers : tbl[p] # NoEntry /\ tbl[p].cap}

\* mutant: remove_provider leaves the entry in place
RemoveProvider_mC6(tbl, p) == tbl

\* remove_provider
RemoveProvider(tbl, p) == [tbl EXCEPT ![p] = NoEntry]

----------------------------------------------------------------------------
(* ConsumerHandler (src/src/protocol/layer_c/consumer_handler.py) *)

EmptySession ==
    [provider_id |-> None, meeting_point |-> None, timeout_time |-> 0,
     retries |-> 0, evaluation |-> None, next_retry_time |-> NoTime]

WaitStates == {"WAIT_ACCEPT", "WAIT_ACKACK"}

\* mutant: an entry still blocks at its expiry time
IsProviderBlacklisted_mC7(bl, p) == bl[p] # NoTime /\ now <= bl[p]

\* _is_provider_blacklisted: the value returned
IsProviderBlacklisted(bl, p) == bl[p] # NoTime /\ now < bl[p]

\* _is_provider_blacklisted, side effect: an expired entry that is looked up
\* is deleted; S is the set of providers the filter is called on
BlacklistAfterLookup(bl, S) ==
    [p \in Providers |->
        IF p \in S /\ bl[p] # NoTime /\ ~IsProviderBlacklisted(bl, p)
        THEN NoTime ELSE bl[p]]

\* _calculate_backoff: base * 2^attempt + jitter, at least 0.1 s (one tick
\* is the least positive delay the clock resolves)
CalculateBackoff(attempt, jitter) ==
    LET d == RETRY_BASE_DELAY * (2 ^ attempt) + jitter
    IN  IF d < 1 THEN 1 ELSE d

Jitters == (0 - RETRY_MAX_JITTER) .. RETRY_MAX_JITTER

\* mutant: one retry more than MAX_RETRIES
RetryAllowed_mC4(retries) == retries <= RETRY_MAX_RETRIES

\* _handle_timeout: the test retries < MAX_RETRIES
RetryAllowed(retries) == retries < RETRY_MAX_RETRIES

\* mutant: the provider check accepts any provider
FromSessionProvider_mC3(c, m) == TRUE

\* handle_join_accept / handle_ackack: the provider check
FromSessionProvider(c, m) == m.provider_id = session[c].provider_id

\* select_best_provider: cands are the providers left by the capacity and
\* blacklist filters; cost, withinThr and critical are the results of the
\* float computations on positions and battery (total_cost per provider,
\* best RREH's detour within the dynamic threshold, urgency < 1.0)
BestOf(S, cost) ==
    IF S = {} THEN None
    ELSE CHOOSE p \in S : \A q \in S : cost[p] <= cost[q]

SelectBestProvider(cands, cost, withinThr, critical) ==
    LET best_rreh    == BestOf(cands \cap RREHProviders, cost)
        best_platoon == BestOf(cands \ RREHProviders, cost)
    IN  IF cands = {} THEN None
        ELSE IF best_rreh = None THEN best_platoon
        ELSE IF best_platoon = None THEN best_rreh
        ELSE IF withinThr THEN best_rreh
        ELSE IF cost[best_platoon] < cost[best_rreh] THEN best_platoon
        ELSE IF critical THEN best_platoon
        ELSE best_rreh

\* _send_offer: session fields written before JOIN_OFFER goes out
SessionAfterOffer(s, p) ==
    [s EXCEPT !.provider_id = p, !.timeout_time = now + ACCEPT_TIMEOUT]

\* _send_ack: session fields written after ACK went out
SessionAfterAck(s) == [s EXCEPT !.timeout_time = now + ACKACK_TIMEOUT]

\* _process_discover
ProcessDiscover(c) ==
    LET tbl   == CleanStale(ptable[c])
        all   == WithCapacity(tbl)
        avail == {p \in all : ~IsProviderBlacklisted(blacklist[c], p)}
    IN  /\ ptable' = [ptable EXCEPT ![c] = tbl]
        /\ blacklist' = [blacklist EXCEPT ![c] = BlacklistAfterLookup(@, all)]
        /\ cstate' = [cstate EXCEPT ![c] = IF avail # {} THEN "EVALUATE" ELSE @]
        /\ out' = <<>>
        /\ UNCHANGED session

\* _process_evaluate followed by _send_offer
ProcessEvaluate(c) ==
    \E cost \in [Providers -> CostVals], withinThr \in BOOLEAN, critical \in BOOLEAN :
    LET tbl   == CleanStale(ptable[c])
        all   == WithCapacity(tbl)
        cands == {p \in all : ~IsProviderBlacklisted(blacklist[c], p)}
        sel   == SelectBestProvider(cands, cost, withinThr, critical)
    IN  /\ ptable' = [ptable EXCEPT ![c] = tbl]
        /\ blacklist' = [blacklist EXCEPT ![c] = BlacklistAfterLookup(@, all)]
        /\ IF sel = None
           THEN /\ cstate' = [cstate EXCEPT ![c] = "DISCOVER"]
                /\ out' = <<>>
                /\ UNCHANGED session
           ELSE /\ session' = [session EXCEPT ![c] =
                        SessionAfterOffer([@ EXCEPT !.evaluation = sel], sel)]
                /\ out' = <<JoinOfferMsg(c)>>
                /\ cstate' = [cstate EXCEPT ![c] = "WAIT_ACCEPT"]

\* mutant: the retry fires only after next_retry_time has passed
BackoffElapsed_mC5(c) == now > session[c].next_retry_time

\* _check_backoff_timeout: the test timestamp >= next_retry_time
BackoffElapsed(c) == now >= session[c].next_retry_time

\* _check_backoff_timeout
CheckBackoffTimeout(c, timeout_type) ==
    IF BackoffElapsed(c)
    THEN LET s == [session[c] EXCEPT !.next_retry_time = NoTime]
         IN  IF timeout_type = "ACCEPT"
             THEN IF s.evaluation # None
                  THEN /\ session' = [session EXCEPT ![c] = SessionAfterOffer(s, s.evaluation)]
                       /\ out' = <<JoinOfferMsg(c)>>
                       /\ cstate' = [cstate EXCEPT ![c] = "WAIT_ACCEPT"]
                       /\ UNCHANGED <<blacklist, ptable>>
                  ELSE /\ session' = [session EXCEPT ![c] = s]
                       /\ out' = <<>>
                       /\ UNCHANGED <<cstate, blacklist, ptable>>
             ELSE /\ session' = [session EXCEPT ![c] = SessionAfterAck(s)]
                  /\ out' = <<AckMsg(c)>>
                  /\ cstate' = [cstate EXCEPT ![c] = "WAIT_ACKACK"]
                  /\ UNCHANGED <<blacklist, ptable>>
    ELSE /\ out' = <<>>
         /\ UNCHANGED <<cstate, session, blacklist, ptable>>

\* _handle_timeout (with _reset_session)
HandleTimeout(c) ==
    LET retries == session[c].retries
        p       == session[c].provider_id
    IN  IF RetryAllowed(retries)
        THEN \E jitter \in Jitters :
             /\ session' = [session EXCEPT ![c] =
                    [@ EXCEPT !.retries = retries + 1,
                              !.next_retry_time = now + CalculateBackoff(retries, jitter)]]
             /\ out' = <<>>
             /\ UNCHANGED <<cstate, blacklist, ptable>>
        ELSE /\ IF p # None
                THEN /\ blacklist' = [blacklist EXCEPT ![c][p] = now + BLACKLIST_DURATION]
                     /\ ptable' = [ptable EXCEPT ![c] = RemoveProvider(@, p)]
                ELSE UNCHANGED <<blacklist, ptable>>
             /\ session' = [session EXCEPT ![c] = EmptySession]
             /\ cstate' = [cstate EXCEPT ![c] = "DISCOVER"]
             /\ out' = <<>>

\* mutant: a wait never times out
CheckWaitTimeout_mC34(c) ==
    /\ out' = <<>>
    /\ UNCHANGED <<cstate, session, blacklist, ptable>>

\* _check_accept_timeout / _check_ackack_timeout
CheckWaitTimeout(c) ==
    IF now > session[c].timeout_time
    THEN HandleTimeout(c)
    ELSE /\ out' = <<>>
         /\ UNCHANGED <<cstate, session, blacklist, ptable>>

\* tick
ConsumerTick(c) ==
    IF role[c] # "CONSUMER"
    THEN /\ out' = <<>>
         /\ UNCHANGED <<cstate, session, blacklist, ptable>>
    ELSE CASE cstate[c] = "DISCOVER" -> ProcessDiscover(c)
           [] cstate[c] = "EVALUATE" -> ProcessEvaluate(c)
           [] cstate[c] = "WAIT_ACCEPT" ->
                IF session[c].next_retry_time # NoTime
                THEN CheckBackoffTimeout(c, "ACCEPT")
                ELSE CheckWaitTimeout(c)
           [] cstate[c] = "WAIT_ACKACK" ->
                IF session[c].next_retry_time # NoTime
                THEN CheckBackoffTimeout(c, "ACKACK")
                ELSE CheckWaitTimeout(c)
           [] OTHER -> /\ out' = <<>>
                       /\ UNCHANGED <<cstate, session, blacklist, ptable>>

\* handle_join_accept followed by _send_ack
HandleJoinAccept(c, m) ==
    IF cstate[c] # "WAIT_ACCEPT" \/ ~FromSessionProvider(c, m)
    THEN /\ out' = <<>>
         /\ UNCHANGED <<cstate, session>>
    ELSE /\ session' = [session EXCEPT ![c] =
                SessionAfterAck([@ EXCEPT !.meeting_point =
                    IF m.meeting_point # None THEN m.meeting_point ELSE @])]
         /\ out' = <<AckMsg(c)>>
         /\ cstate' = [cstate EXCEPT ![c] = "WAIT_ACKACK"]

\* mutant: handle_ackack without its state check
HandleAckAck_mC1(c, m) ==
    IF ~FromSessionProvider(c, m)
    THEN /\ out' = <<>>
         /\ UNCHANGED <<cstate, session>>
    ELSE /\ cstate' = [cstate EXCEPT ![c] = "ALLOCATED"]
         /\ out' = <<>>
         /\ UNCHANGED session

\* handle_ackack
HandleAckAck(c, m) ==
    IF cstate[c] # "WAIT_ACKACK" \/ ~FromSessionProvider(c, m)
    THEN /\ out' = <<>>
         /\ UNCHANGED <<cstate, session>>
    ELSE /\ cstate' = [cstate EXCEPT ![c] = "ALLOCATED"]
         /\ out' = <<>>
         /\ UNCHANGED session

\* start_travel
StartTravel(c) ==
    /\ cstate' = [cstate EXCEPT ![c] = IF @ = "ALLOCATED" THEN "TRAVEL" ELSE @]
    /\ out' = <<>>
    /\ UNCHANGED <<session, blacklist, ptable>>

\* start_charging
StartCharging(c) ==
    /\ cstate' = [cstate EXCEPT ![c] = IF @ = "TRAVEL" THEN "CHARGE" ELSE @]
    /\ out' = <<>>
    /\ UNCHANGED <<session, blacklist, ptable>>

\* finish_charging: CHARGE -> LEAVE -> DISCOVER, session reset, blacklist cleared
FinishCharging(c) ==
    IF cstate[c] = "CHARGE"
    THEN /\ session' = [session EXCEPT ![c] = EmptySession]
         /\ blacklist' = [blacklist EXCEPT ![c] = [p \in Providers |-> NoTime]]
         /\ cstate' = [cstate EXCEPT ![c] = "DISCOVER"]
         /\ out' = <<>>
         /\ UNCHANGED ptable
    ELSE /\ out' = <<>>
         /\ UNCHANGED <<cstate, session, blacklist, ptable>>

\* ProviderTable.update_provider, called by Layer B for a PA or GRID_STATUS
UpdateProvider(c, p, cap) ==
    /\ ptable' = [ptable EXCEPT ![c][p] = NewEntry(cap)]
    /\ out' = <<>>
    /\ UNCHANGED <<cstate, session, blacklist>>

----------------------------------------------------------------------------
(* ProviderAnnouncementHandler (src/src/protocol/layer_b/handler.py)      *)

\* A PA as decoded from the wire: the header fields and the TLVs in payload
\* order.  Of the TLVs only PROVIDER_ID and PREVIOUS_HOP are kept one by
\* one; cap is has_capacity() of the entry the remaining fields describe.
Tlv(t, v) == [type |-> t, value |-> v]

PAMsg(sender, seq, ttl, tlvs, cap) ==
    [type |-> "PA", sender_id |-> sender, seq_num |-> seq, ttl |-> ttl,
     tlvs |-> tlvs, cap |-> cap]

\* MVCCPMessage.get_tlv_value: the value of the first TLV of the type
GetTlvValue(m, t) ==
    LET matching == SelectSeq(m.tlvs, LAMBDA x : x.type = t)
    IN  IF matching = <<>> THEN None ELSE matching[1].value

PA_COUNT_WINDOW == 1 * TicksPerSecond               \* 1.0 s

\* handle_pa: the deduplication key
MsgKey(m) == <<m.sender_id, m.seq_num>>

\* mutant: the duplicate check never fires
SeenBefore_mC8(n, m) == FALSE

\* handle_pa: msg_key in self.seen_messages
SeenBefore(n, m) == MsgKey(m) \in seen_messages[n]

\* handle_pa: the PREVIOUS_HOP TLV, or sender_id when there is none
PreviousHopOf(m) ==
    IF GetTlvValue(m, "PREVIOUS_HOP") = None
    THEN m.sender_id ELSE GetTlvValue(m, "PREVIOUS_HOP")

\* mutant: a PA whose TTL is used up is still forwarded
MayForward_mC9(n, m) == m.ttl >= 0 /\ PreviousHopOf(m) \in mpr_selector_set[n]

\* handle_pa: the forwarding decision
MayForward(n, m) == m.ttl > 0 /\ PreviousHopOf(m) \in mpr_selector_set[n]

\* mutant: the forwarder appends its PREVIOUS_HOP TLV without removing the
\* received ones
ForwardPA_mC10(n, m) ==
    [m EXCEPT !.ttl = @ - 1, !.tlvs = Append(@, Tlv("PREVIOUS_HOP", n))]

\* _forward_pa: the packet re-encoded and handed to send_callback
ForwardPA(n, m) ==
    [m EXCEPT !.ttl = @ - 1,
              !.tlvs = Append(SelectSeq(@, LAMBDA x : x.type # "PREVIOUS_HOP"),
                              Tlv("PREVIOUS_HOP", n))]

\* _update_pa_counter
UpdatePaCounter(n) ==
    LET reset == now - pa_receive_window_start[n] >= PA_COUNT_WINDOW
    IN  /\ pa_receive_count' = [pa_receive_count EXCEPT ![n] = (IF reset THEN 0 ELSE @) + 1]
        /\ pa_receive_window_start' = [pa_receive_window_start EXCEPT ![n] =
                IF reset THEN now ELSE @]

\* handle_pa
HandlePA(n, m) ==
    IF SeenBefore(n, m)
    THEN /\ out' = <<>>
         /\ UNCHANGED <<seen_messages, ptable, pa_receive_count, pa_receive_window_start>>
    ELSE /\ seen_messages' = [seen_messages EXCEPT ![n] = @ \cup {MsgKey(m)}]
         /\ UpdatePaCounter(n)
         /\ ptable' = IF GetTlvValue(m, "PROVIDER_ID") # None
                      THEN [ptable EXCEPT ![n][GetTlvValue(m, "PROVIDER_ID")] = NewEntry(m.cap)]
                      ELSE ptable
         /\ out' = IF MayForward(n, m) THEN <<ForwardPA(n, m)>> ELSE <<>>

----------------------------------------------------------------------------
(* PlatoonHeadHandler (src/src/protocol/layer_c/platoon_head_handler.py)  *)

BEACON_INTERVAL == 2 * TicksPerSecond               \* 2.0 s
OFFER_WINDOW == 3 * TicksPerSecond                  \* 3.0 s
ACK_TIMEOUT == 3 * TicksPerSecond                   \* 3.0 s
MAX_PENDING == 5
PLATOON_ANNOUNCE_INTERVAL == 5 * TicksPerSecond     \* 5.0 s
MAX_NODES == 6                                      \* Platoon.max_nodes

\* Platoon.available_slots of the head's platoon: max_nodes - node_number
AvailableSlots(h) == MAX_NODES - h.platoon.node_number

\* _score_offer yields 100 + 50 * alignment - 50 * (energy not available);
\* the handler only tests score > 0 and the order of the scores
Scores == {0, 50, 100}

\* __init__, and RoleManager._initialize_platoon_head for platoon_members
InitHead(p) ==
    [state |-> "BEACON", pending_members |-> <<>>, current_target |-> None,
     current_target_timeout |-> 0, offer_window_start |-> 0,
     last_beacon_time |-> 0, last_announce_time |-> 0, platoon_members |-> <<p>>,
     platoon |-> [nodes |-> <<p>>, node_number |-> 1, member_positions |-> <<p>>]]

InSeq(x, sq) == \E i \in 1..Len(sq) : sq[i] = x

Without(sq, x) == SelectSeq(sq, LAMBDA y : y # x)

\* RoleManager.should_handoff: never returns True. A head alone in its
\* platoon has no handoff candidate, and the method reads
\* self.PH_ENERGY_THRESHOLD, which RoleManager does not define, before it
\* looks for one.
ShouldHandoff(p) == FALSE

\* RoleManager.should_handoff past its two early returns (the node is the
\* head, of a platoon): reading self.PH_ENERGY_THRESHOLD raises
\* AttributeError, which no caller up to tick catches
ShouldHandoffRaises(p) == role[p] = "PLATOON_HEAD"

\* the periodic part of _process_beacon and _process_coordinate
BeaconDue(h) == now - h.last_beacon_time >= BEACON_INTERVAL
AnnounceDue(h) == now - h.last_announce_time >= PLATOON_ANNOUNCE_INTERVAL

PeriodicOut(p, h) ==
    (IF BeaconDue(h) THEN <<PlatoonBeaconMsg(p)>> ELSE <<>>)
        \o (IF AnnounceDue(h) THEN <<PlatoonAnnounceMsg(p)>> ELSE <<>>)

AfterPeriodic(h) ==
    [h EXCEPT !.last_beacon_time = IF BeaconDue(h) THEN now ELSE @,
              !.last_announce_time = IF AnnounceDue(h) THEN now ELSE @]

\* _process_beacon
ProcessBeacon(p) ==
    LET h == AfterPeriodic(ph[p])
    IN  /\ out' = PeriodicOut(p, ph[p])
        /\ ph' = [ph EXCEPT ![p] =
                IF AvailableSlots(h) > 0
                THEN [h EXCEPT !.state = "WAIT_OFFERS", !.offer_window_start = now]
                ELSE h]

\* _process_wait_offers
ProcessWaitOffers(p) ==
    /\ out' = <<>>
    /\ ph' = [ph EXCEPT ![p].state =
            IF now - ph[p].offer_window_start >= OFFER_WINDOW
            THEN (IF ph[p].pending_members # <<>> THEN "EVALUATE_OFFERS" ELSE "BEACON")
            ELSE @]

\* the first entry of the list sorted by descending score (the sort is
\* stable, the dict keeps insertion order)
TopOffer(pend, score) ==
    pend[CHOOSE i \in 1..Len(pend) :
            /\ \A j \in 1..Len(pend) : score[pend[j]] <= score[pend[i]]
            /\ \A j \in 1..(i - 1) : score[pend[j]] < score[pend[i]]]

\* _process_evaluate_offers followed by _send_accept
ProcessEvaluateOffers(p) ==
    LET h == ph[p]
    IN  IF AvailableSlots(h) = 0 \/ h.pending_members = <<>>
        THEN /\ ph' = [ph EXCEPT ![p] = [h EXCEPT !.pending_members = <<>>,
                                                  !.state = "COORDINATE"]]
             /\ out' = <<>>
        ELSE \E score \in [{h.pending_members[i] : i \in 1..Len(h.pending_members)} -> Scores] :
             LET top    == TopOffer(h.pending_members, score)
                 target == IF score[top] > 0 THEN top ELSE h.current_target
             IN  IF target # None
                 THEN /\ ph' = [ph EXCEPT ![p] =
                            [h EXCEPT !.current_target = target,
                                      !.state = "WAIT_ACK",
                                      !.current_target_timeout = now + ACK_TIMEOUT]]
                      /\ out' = <<JoinAcceptMsg(p)>>
                 ELSE /\ ph' = [ph EXCEPT ![p] = [h EXCEPT !.pending_members = <<>>,
                                                           !.state = "COORDINATE"]]
                      /\ out' = <<>>

\* the tail of _send_ackack and of _check_ack_timeout: drop the target,
\* go on with the other offers or coordinate
AfterTarget(h, pend) ==
    [h EXCEPT !.pending_members = pend,
              !.current_target = None,
              !.state = IF pend # <<>> THEN "EVALUATE_OFFERS" ELSE "COORDINATE"]

\* mutant: _check_ack_timeout that keeps the pending entry of the target
CheckAckTimeout_mC26(p) ==
    /\ out' = <<>>
    /\ ph' = [ph EXCEPT ![p] =
            IF now > ph[p].current_target_timeout
            THEN AfterTarget(@, @.pending_members)
            ELSE @]

\* _check_ack_timeout
CheckAckTimeout(p) ==
    /\ out' = <<>>
    /\ ph' = [ph EXCEPT ![p] =
            IF now > ph[p].current_target_timeout
            THEN AfterTarget(@, Without(@.pending_members, @.current_target))
            ELSE @]

\* _process_coordinate
ProcessCoordinate(p) ==
    LET h == AfterPeriodic(ph[p])
    IN  /\ out' = PeriodicOut(p, ph[p])
        /\ ph' = [ph EXCEPT ![p] =
                IF ShouldHandoff(p) THEN [h EXCEPT !.state = "HANDOFF"] ELSE h]

\* _process_handoff: perform_handoff fails unless should_handoff holds
ProcessHandoff(p) ==
    /\ out' = <<>>
    /\ ph' = [ph EXCEPT ![p].state = IF ShouldHandoff(p) THEN @ ELSE "COORDINATE"]

\* tick
HeadTick(p) ==
    IF role[p] # "PLATOON_HEAD"
    THEN out' = <<>> /\ UNCHANGED ph
    ELSE CASE ph[p].state = "BEACON" -> ProcessBeacon(p)
           [] ph[p].state = "WAIT_OFFERS" -> ProcessWaitOffers(p)
           [] ph[p].state = "EVALUATE_OFFERS" -> ProcessEvaluateOffers(p)
           [] ph[p].state = "WAIT_ACK" -> CheckAckTimeout(p)
           [] ph[p].state = "COORDINATE" -> ProcessCoordinate(p)
           [] ph[p].state = "HANDOFF" -> ProcessHandoff(p)
           [] OTHER -> out' = <<>> /\ UNCHANGED ph

\* the CONSUMER_ID TLV, or the header's sender_id when it is absent
ConsumerIdOf(m) == IF m.consumer_id # None THEN m.consumer_id ELSE m.sender_id

\* mutant: handle_join_offer without the pending limit
HeadHandleJoinOffer_mC17(p, m) ==
    LET h   == ph[p]
        cid == ConsumerIdOf(m)
    IN  /\ out' = <<>>
        /\ IF \/ h.state \notin {"WAIT_OFFERS", "BEACON", "COORDINATE"}
              \/ AvailableSlots(h) = 0
              \/ InSeq(cid, h.pending_members)
           THEN UNCHANGED ph
           ELSE ph' = [ph EXCEPT ![p] =
                    [h EXCEPT !.pending_members = Append(@, cid),
                              !.state = IF @ = "COORDINATE" THEN "EVALUATE_OFFERS" ELSE @]]

\* handle_join_offer
HeadHandleJoinOffer(p, m) ==
    LET h   == ph[p]
        cid == ConsumerIdOf(m)
    IN  /\ out' = <<>>
        /\ IF \/ h.state \notin {"WAIT_OFFERS", "BEACON", "COORDINATE"}
              \/ AvailableSlots(h) = 0
              \/ InSeq(cid, h.pending_members)
              \/ Len(h.pending_members) >= MAX_PENDING
           THEN UNCHANGED ph
           ELSE ph' = [ph EXCEPT ![p] =
                    [h EXCEPT !.pending_members = Append(@, cid),
                              !.state = IF @ = "COORDINATE" THEN "EVALUATE_OFFERS" ELSE @]]

\* _add_member_to_platoon
AddMemberToPlatoon(members, cid) ==
    IF InSeq(cid, members) THEN members ELSE Append(members, cid)

\* handle_ack: the tests that let an ACK through
AckAnswered(p, m) ==
    /\ ph[p].state = "WAIT_ACK"
    /\ ConsumerIdOf(m) = ph[p].current_target

\* handle_ack followed by _send_ackack
HeadHandleAck(p, m) ==
    LET h   == ph[p]
        cid == ConsumerIdOf(m)
    IN  IF ~AckAnswered(p, m)
        THEN out' = <<>> /\ UNCHANGED ph
        ELSE /\ out' = <<AckAckMsg(p)>>
             /\ ph' = [ph EXCEPT ![p] =
                    AfterTarget(
                        [h EXCEPT !.platoon_members =
                            IF InSeq(cid, h.pending_members)
                            THEN AddMemberToPlatoon(@, cid) ELSE @],
                        Without(h.pending_members, cid))]

----------------------------------------------------------------------------
(* Platoon (src/src/core/platoon.py) *)

PNodes == {"N1", "N2", "N3", "N4", "N5", "N6", "N7"}    \* vehicles
FirstHead == "N1"                                       \* head_node given to the constructor

\* Node.shareable_energy() of the vehicles: battery minus energy to the
\* destination minus reserve, negative for a vehicle that needs charge
ShareableProfiles ==
    {[n \in PNodes |-> CASE n = "N1" -> 2 [] n = "N2" -> 0 [] n = "N3" -> 1
                          [] n = "N4" -> 2 [] n = "N5" -> 0 - 1 [] n = "N6" -> 1
                          [] OTHER -> 0],
     [n \in PNodes |-> CASE n = "N1" -> 1 [] n = "N2" -> 3 [] n = "N3" -> 2
                          [] n = "N4" -> 1 [] n = "N5" -> 3 [] n = "N6" -> 2
                          [] OTHER -> 1]}

\* Platoon.__init__ with a head_node
InitPlatoon == [head_node |-> FirstHead, nodes |-> <<FirstHead>>, node_number |-> 1]

\* Platoon.find_best_handoff_candidate: the first member other than the head
\* whose shareable energy is positive and not exceeded by a later member's
FindBestHandoffCandidate(pl, sh) ==
    LET idx == {i \in 1..Len(pl.nodes) : pl.nodes[i] # pl.head_node /\ sh[pl.nodes[i]] > 0}
    IN  IF idx = {} THEN None
        ELSE pl.nodes[CHOOSE i \in idx :
                        /\ \A j \in idx : sh[pl.nodes[j]] <= sh[pl.nodes[i]]
                        /\ \A j \in idx : j < i => sh[pl.nodes[j]] < sh[pl.nodes[i]]]

\* Platoon.set_head
SetHead(pl, n) ==
    IF ~InSeq(n, pl.nodes) THEN pl
    ELSE [pl EXCEPT !.head_node = n, !.nodes = <<n>> \o Without(pl.nodes, n)]

\* Platoon._remove_member_internal
RemoveMemberInternal(pl, n) ==
    IF InSeq(n, pl.nodes)
    THEN [pl EXCEPT !.nodes = Without(@, n), !.node_number = @ - 1]
    ELSE pl

\* Platoon.add_node
AddNode(pl, n) ==
    IF ~(pl.node_number < MAX_NODES) THEN pl
    ELSE IF ~InSeq(n, pl.nodes)
         THEN [pl EXCEPT !.nodes = Append(@, n), !.node_number = @ + 1]
         ELSE pl

\* Platoon.remove_node
RemoveNode(pl, n, sh) ==
    IF ~InSeq(n, pl.nodes) THEN pl
    ELSE IF n = pl.head_node
         THEN LET candidate == FindBestHandoffCandidate(pl, sh)
              IN  IF candidate # None
                  THEN RemoveMemberInternal(SetHead(pl, candidate), n)
                  ELSE [RemoveMemberInternal(pl, n) EXCEPT !.head_node = None]
         ELSE RemoveMemberInternal(pl, n)

----------------------------------------------------------------------------
(* RREHHandler (src/src/protocol/layer_c/rreh_handler.py) *)

RREH_MAX_SESSIONS == 4                              \* context.rreh_max_sessions
GRID_STATUS_INTERVAL == 10 * TicksPerSecond         \* 10.0 s
RREH_OFFER_WINDOW == 5 * TicksPerSecond             \* 5.0 s
RREH_ACK_TIMEOUT == 5 * TicksPerSecond              \* 5.0 s
Hub == "R1"

GridStatusMsg(h) ==
    [type |-> "GRID_STATUS", sender_id |-> h, consumer_id |-> None,
     provider_id |-> None, meeting_point |-> None]

InitRreh ==
    [state |-> "GRID_ANNOUNCE", consumer_queue |-> <<>>, active_sessions |-> {},
     last_grid_status_time |-> 0, offer_window_start |-> 0,
     current_target |-> None, current_target_timeout |-> 0,
     operational_state |-> "normal"]

\* mutant: capacity that admits one session more
HasCapacity_mC16(r) ==
    /\ Cardinality(r.active_sessions) <= RREH_MAX_SESSIONS
    /\ r.operational_state \in {"normal", "congested"}

\* _has_capacity
HasCapacity(r) ==
    /\ Cardinality(r.active_sessions) < RREH_MAX_SESSIONS
    /\ r.operational_state \in {"normal", "congested"}

\* the state a handler falls back to once the negotiation is over
QueueOrIdle(q) == IF q # <<>> THEN "EVALUATE_QUEUE" ELSE "IDLE"

\* _process_evaluate_queue: the consumer the hub takes from its queue
NextInQueue_mC29(q) == q[Len(q)]
NextInQueue(q) == q[1]

\* tick(timestamp), timestamp being the clock the caller has just stored
RrehTick ==
    LET r  == rreh
        gs == now - r.last_grid_status_time >= GRID_STATUS_INTERVAL
        st == [r EXCEPT !.last_grid_status_time = IF gs THEN now ELSE @]
        more == HasCapacity(r) /\ r.consumer_queue # <<>>
    IN  CASE r.state = "GRID_ANNOUNCE" ->
                /\ out' = IF gs THEN <<GridStatusMsg(Hub)>> ELSE <<>>
                /\ rreh' = IF HasCapacity(r)
                            THEN [st EXCEPT !.state = "WAIT_OFFERS",
                                            !.offer_window_start = now]
                            ELSE st
          [] r.state = "WAIT_OFFERS" ->
                /\ out' = <<>>
                /\ rreh' = IF now - r.offer_window_start >= RREH_OFFER_WINDOW
                            THEN [r EXCEPT !.state = QueueOrIdle(r.consumer_queue)]
                            ELSE r
          [] r.state = "EVALUATE_QUEUE" ->
                IF ~more
                THEN /\ out' = <<>>
                     /\ rreh' = [r EXCEPT !.state = "IDLE"]
                ELSE /\ out' = <<JoinAcceptMsg(Hub)>>
                     /\ rreh' = [r EXCEPT !.state = "WAIT_ACK",
                                          !.current_target = NextInQueue(r.consumer_queue),
                                          !.current_target_timeout = now + RREH_ACK_TIMEOUT]
          [] r.state = "WAIT_ACK" ->
                /\ out' = <<>>
                /\ rreh' = IF now > r.current_target_timeout
                            THEN LET q == Without(r.consumer_queue, r.current_target)
                                 IN  [r EXCEPT !.consumer_queue = q,
                                               !.current_target = None,
                                               !.state = QueueOrIdle(q)]
                            ELSE r
          [] r.state \in {"CHARGE_SESSION", "IDLE"} ->
                /\ out' = IF gs THEN <<GridStatusMsg(Hub)>> ELSE <<>>
                /\ rreh' = IF more THEN [st EXCEPT !.state = "EVALUATE_QUEUE"] ELSE st
          [] OTHER ->
                /\ out' = <<>>
                /\ UNCHANGED rreh

\* handle_join_offer
RrehHandleJoinOffer(m) ==
    LET r   == rreh
        cid == ConsumerIdOf(m)
    IN  /\ out' = <<>>
        /\ IF \/ (r.state = "CHARGE_SESSION" /\ ~HasCapacity(r))
              \/ InSeq(cid, r.consumer_queue)
              \/ cid \in r.active_sessions
           THEN UNCHANGED rreh
           ELSE rreh' = [r EXCEPT !.consumer_queue = Append(@, cid),
                                  !.state = IF @ = "IDLE" THEN "EVALUATE_QUEUE" ELSE @]

\* handle_ack and _send_ackack
RrehHandleAck(m) ==
    LET r   == rreh
        cid == ConsumerIdOf(m)
        q   == Without(r.consumer_queue, cid)
        act == IF InSeq(cid, r.consumer_queue)
               THEN r.active_sessions \cup {cid} ELSE r.active_sessions
    IN  IF r.state # "WAIT_ACK" \/ cid # r.current_target
        THEN /\ out' = <<>>
             /\ UNCHANGED rreh
        ELSE /\ out' = <<AckAckMsg(Hub)>>
             /\ rreh' = [r EXCEPT !.consumer_queue = q,
                                  !.active_sessions = act,
                                  !.current_target = None,
                                  !.state = IF act # {} THEN "CHARGE_SESSION"
                                            ELSE QueueOrIdle(q)]

\* set_operational_state
RrehSetOperationalState(state) ==
    /\ out' = <<>>
    /\ rreh' = IF state \in {"normal", "congested", "limited", "offline"}
               THEN [rreh EXCEPT !.operational_state = state]
               ELSE rreh

\* complete_session
RrehCompleteSession(cid) ==
    LET r    == rreh
        done == [r EXCEPT !.active_sessions = @ \ {cid}]
    IN  /\ out' = <<>>
        /\ IF cid \notin r.active_sessions
           THEN UNCHANGED rreh
           ELSE rreh' = IF done.consumer_queue # <<>> /\ HasCapacity(done)
                        THEN [done EXCEPT !.state = "EVALUATE_QUEUE"]
                        ELSE done

----------------------------------------------------------------------------
(* RoleManager (src/src/protocol/layer_c/role_manager.py), set_role        *)
(* (src/src/protocol/context.py) and PlatoonCoordinationHandler            *)
(* (src/src/protocol/layer_d/handler.py) of one vehicle                    *)

PH_ENERGY_THRESHOLD_PERCENT == 60                   \* 0.60, in percent
PH_WILLINGNESS_THRESHOLD == 4
BatteryCapacity == 5                                \* node.battery_capacity_kwh, in model units
STATUS_INTERVAL == 1 * TicksPerSecond               \* 1.0 s
BEACON_TIMEOUT == 5 * TicksPerSecond                \* 5.0 s

ConsumerStates ==
    {"DISCOVER", "EVALUATE", "SEND_OFFER", "WAIT_ACCEPT", "SEND_ACK",
     "WAIT_ACKACK", "ALLOCATED", "TRAVEL", "CHARGE", "LEAVE"}
PlatoonHeadStates ==
    {"BEACON", "WAIT_OFFERS", "EVALUATE_OFFERS", "SEND_ACCEPT", "WAIT_ACK",
     "SEND_ACKACK", "COORDINATE", "HANDOFF"}

\* the context, the handlers and the node after construction; current_platoon
\* is None, "head" (a platoon this node leads) or "member" (one it does not)
InitVeh ==
    [role |-> "CONSUMER", consumer_state |-> "DISCOVER",
     platoon_head_state |-> "BEACON",
     current_platoon |-> None, current_platoon_id |-> None,
     shareable |-> -1, willingness |-> 3,
     last_beacon_time |-> 0, current_head_id |-> None, last_status_time |-> 0]

\* MVCCPContext.set_role
SetRole(v, r) ==
    IF r = v.role THEN v
    ELSE CASE r = "CONSUMER" ->
                [v EXCEPT !.role = r, !.consumer_state = "DISCOVER",
                          !.platoon_head_state = None]
           [] r = "PLATOON_HEAD" ->
                [v EXCEPT !.role = r, !.platoon_head_state = "BEACON",
                          !.consumer_state = None]
           [] r = "PLATOON_MEMBER" ->
                [v EXCEPT !.role = r, !.consumer_state = "ALLOCATED",
                          !.platoon_head_state = None]
           [] OTHER ->
                [v EXCEPT !.role = r, !.consumer_state = None,
                          !.platoon_head_state = None]

\* evaluate_role
EvaluateRole(v) ==
    IF v.role = "RREH" THEN "RREH"
    ELSE IF v.role = "PLATOON_MEMBER" THEN "PLATOON_MEMBER"
    ELSE IF /\ v.shareable * 100 >= PH_ENERGY_THRESHOLD_PERCENT * BatteryCapacity
            /\ v.willingness >= PH_WILLINGNESS_THRESHOLD
            /\ ~(v.current_platoon = "member")
         THEN "PLATOON_HEAD"
         ELSE "CONSUMER"

\* _is_in_active_session
IsInActiveSession(v) ==
    IF v.role = "CONSUMER"
    THEN v.consumer_state \in {"WAIT_ACCEPT", "WAIT_ACKACK", "ALLOCATED", "TRAVEL", "CHARGE"}
    ELSE IF v.role = "PLATOON_HEAD"
         THEN v.platoon_head_state \in {"WAIT_ACK", "SEND_ACKACK", "COORDINATE"}
         ELSE FALSE

\* _handle_ph_exit and _dissolve_platoon; candidate tells whether
\* find_best_handoff_candidate finds a member to hand the platoon to
HandlePhExit(v, candidate) ==
    IF v.current_platoon = None THEN v
    ELSE IF candidate /\ v.shareable >= 0
         THEN [v EXCEPT !.current_platoon = "member"]
         ELSE [v EXCEPT !.current_platoon = None, !.current_platoon_id = None]

\* what _handle_ph_exit and _dissolve_platoon do to the Platoon object of
\* the head `node`
PhExitPlatoon(pl, node, sh) ==
    LET candidate == FindBestHandoffCandidate(pl, sh)
    IN  IF candidate # None
        THEN IF sh[node] < 0
             THEN RemoveNode(SetHead(pl, candidate), node, sh)
             ELSE SetHead(pl, candidate)
        ELSE [pl EXCEPT !.nodes = <<>>, !.node_number = 0]

\* apply_role(new_role), with _initialize_platoon_head
ApplyRole(v, new_role, candidate) ==
    IF new_role = v.role THEN v
    ELSE LET a == IF v.role = "PLATOON_HEAD" THEN HandlePhExit(v, candidate) ELSE v
             b == IF new_role = "PLATOON_HEAD"
                  THEN [a EXCEPT !.current_platoon = "head",
                                 !.current_platoon_id = "PL1"]
                  ELSE a
         IN  SetRole(b, new_role)

\* mutant: tick that does not look at the session
RoleManagerTick_mC18(v, candidate) ==
    IF v.role = "RREH" THEN v
    ELSE IF v.role = "PLATOON_MEMBER"
         THEN IF v.current_platoon = None THEN SetRole(v, "CONSUMER") ELSE v
         ELSE ApplyRole(v, EvaluateRole(v), candidate)

\* RoleManager.tick
RoleManagerTick(v, candidate) ==
    IF v.role = "RREH" THEN v
    ELSE IF v.role = "PLATOON_MEMBER"
         THEN IF v.current_platoon = None THEN SetRole(v, "CONSUMER") ELSE v
         ELSE IF EvaluateRole(v) # v.role /\ ~IsInActiveSession(v)
              THEN ApplyRole(v, EvaluateRole(v), candidate)
              ELSE v

\* PlatoonCoordinationHandler.tick with _tick_as_member, _send_status and
\* _handle_beacon_timeout; of _tick_as_head nothing reaches the fields
\* modelled here
CoordinationTick ==
    LET v == veh
    IN  IF v.current_platoon = None \/ v.role # "PLATOON_MEMBER"
        THEN out' = <<>> /\ UNCHANGED veh
        ELSE IF v.current_head_id # None /\ now - v.last_beacon_time > BEACON_TIMEOUT
             THEN /\ out' = <<>>
                  /\ veh' = SetRole([v EXCEPT !.current_platoon = None,
                                              !.current_platoon_id = None,
                                              !.current_head_id = None], "CONSUMER")
             ELSE IF now - v.last_status_time >= STATUS_INTERVAL
                  THEN /\ out' = IF v.current_head_id # None
                                 THEN <<[type |-> "PLATOON_STATUS", sender_id |-> "V1",
                                         consumer_id |-> None, provider_id |-> None,
                                         meeting_point |-> None]>>
                                 ELSE <<>>
                       /\ veh' = [v EXCEPT !.last_status_time = now]
                  ELSE out' = <<>> /\ UNCHANGED veh

\* handle_beacon
HandleBeacon(v, head_id, platoon_id) ==
    IF v.role = "PLATOON_MEMBER" /\ v.current_platoon_id = platoon_id
    THEN [v EXCEPT !.current_head_id = head_id, !.last_beacon_time = now]
    ELSE v

----------------------------------------------------------------------------
(* QoS_OLSR.select_mprs (src/src/protocol/layer_a/olsr.py) *)

ONodes == {"A", "B", "C"}                           \* nodes that can be 1-hop neighbours
QosVals == {1, 2}                                   \* values of calculate_qos_score

\* N1: the keys of the snapshot
OlsrN1(s) == {n \in ONodes : s[n].present}

\* N2: what the neighbours list as their neighbours, without this node
\* ("S") and without N1
OlsrN2(s) == ((UNION {s[n].two_hop_neighbors : n \in OlsrN1(s)}) \ {"S"}) \ OlsrN1(s)

\* step 3: the neighbours that are the only path to some node of N2
EssentialMprs(s) ==
    {n \in OlsrN1(s) :
        \E x \in OlsrN2(s) : {m \in OlsrN1(s) : x \in s[m].two_hop_neighbors} = {n}}

\* step 4, the greedy loop: the MPR sets it can end with, from the MPR set M
\* and the nodes of N2 still uncovered. The candidates are visited in the
\* iteration order of a Python set, so among candidates of equal coverage
\* and equal score any one can be kept. Node ids are 6-byte strings, so
\* "if best_candidate" holds for every candidate.
RECURSIVE Greedy(_, _, _)
Greedy(s, M, remaining) ==
    LET candidates == OlsrN1(s) \ M
        cov(c) == Cardinality(s[c].two_hop_neighbors \cap remaining)
        most == {c \in candidates : \A d \in candidates : cov(d) <= cov(c)}
        best == {c \in most : \A d \in most : s[d].qos <= s[c].qos}
    IN  IF remaining = {} \/ candidates = {} THEN {M}
        ELSE IF \E c \in best : cov(c) > 0
             THEN UNION {Greedy(s, M \cup {b}, remaining \ s[b].two_hop_neighbors) : b \in best}
             ELSE {M}

\* mutant: select_mprs without the greedy loop
SelectMprs_mC20(s) == {EssentialMprs(s)}

\* select_mprs: the sets it can return
SelectMprs(s) ==
    LET essential == EssentialMprs(s)
        covered_N2 == (UNION {s[m].two_hop_neighbors : m \in essential}) \cap OlsrN2(s)
    IN  Greedy(s, essential, OlsrN2(s) \ covered_N2)

----------------------------------------------------------------------------
(* NeighborTable (src/src/protocol/layer_a/neighbor_table.py) and the      *)
(* HELLO handler (src/src/protocol/layer_a/handler.py).  "S" is the id of  *)
(* the node itself in the 2-hop lists.                                     *)

NEIGHBOR_TIMEOUT == 5 * TicksPerSecond              \* 5.0 s
PRUNE_INTERVAL == 1 * TicksPerSecond                \* 1.0 s

NoNeighbor == [present |-> FALSE, last_seen |-> 0, two_hop_neighbors |-> {}, qos |-> 1]

\* NeighborTable() followed by the history of its calls: the table whose
\* pruning the last call ran, the time since each table's pruning ran last
\* (counted up to PRUNE_INTERVAL), the PA last received, and the neighbours
\* that have this node in their own mpr_set
InitTable ==
    [neighbors |-> [n \in ONodes |-> NoNeighbor], last_prune_time |-> 0,
     pruned |-> "none",
     since |-> [neighbors |-> NoTime, providers |-> NoTime],
     rx |-> PAMsg(None, 0, 0, <<>>, FALSE), selected_me |-> {}]

\* _prune_stale_unsafe
PruneStaleUnsafe(nb, current_time) ==
    [n \in ONodes |->
        IF nb[n].present /\ current_time - nb[n].last_seen > NEIGHBOR_TIMEOUT
        THEN NoNeighbor ELSE nb[n]]

\* history: the pruning of a table ran, or none did
RanPrune(t, tbl) == [t EXCEPT !.pruned = tbl, !.since[tbl] = 0]
RanNone(t) == [t EXCEPT !.pruned = "none"]

\* history: a tick of the clock has passed
Older(t) ==
    [t EXCEPT !.since = [tbl \in DOMAIN @ |->
        IF @[tbl] = NoTime \/ @[tbl] >= PRUNE_INTERVAL THEN @[tbl] ELSE @[tbl] + 1]]

\* update_neighbor: the rate-limited pruning, then the entry written;
\* _validate_two_hop_list drops the node's own id from the 2-hop list
UpdateNeighbor(t, node_id, two_hop_list, qos) ==
    LET due == now - t.last_prune_time > PRUNE_INTERVAL
        nb  == IF due THEN PruneStaleUnsafe(t.neighbors, now) ELSE t.neighbors
        t1  == IF due THEN RanPrune(t, "neighbors") ELSE RanNone(t)
    IN  [t1 EXCEPT !.neighbors = [nb EXCEPT ![node_id] =
                        [present |-> TRUE, last_seen |-> now,
                         two_hop_neighbors |-> two_hop_list \ {"S"}, qos |-> qos]],
                   !.last_prune_time = IF due THEN now ELSE @]

\* prune_stale: the public method, without rate limit
PruneStale(t) ==
    [RanPrune(t, "neighbors") EXCEPT !.neighbors = PruneStaleUnsafe(@, now)]

\* get_one_hop_set
GetOneHopSet(t) == {n \in ONodes : t.neighbors[n].present}

\* get_two_hop_set
GetTwoHopSet(t) ==
    ((UNION {t.neighbors[n].two_hop_neighbors : n \in GetOneHopSet(t)}) \ {"S"})
        \ GetOneHopSet(t)

\* get_snapshot: the fields select_mprs reads, the QoS score standing for
\* the attributes it is computed from
GetSnapshot(t) ==
    [n \in ONodes |->
        [present |-> t.neighbors[n].present,
         two_hop_neighbors |-> t.neighbors[n].two_hop_neighbors,
         qos |-> t.neighbors[n].qos]]

----------------------------------------------------------------------------
(* Energy routing on the platoon's edge graph (src/src/core/platoon.py,    *)
(* src/src/core/edge.py).  An edge carries its transfer_efficiency, in     *)
(* tenths, and its edge_cost; a cumulative efficiency is a fraction n/d.   *)

RNodes == {"a", "b", "c"}
RRank == [a |-> 1, b |-> 2, c |-> 3]        \* the order of the node ids as bytes
RShareable == [a |-> 2, b |-> 3, c |-> 1]   \* Node.shareable_energy() of the members
EffVals == {0, 1, 5}
EdgeCosts == {1, 3}
EdgeKeys == {k \in RNodes \X RNodes : k[1] # k[2]}
EdgeGraphs == [EdgeKeys -> [transfer_efficiency : EffVals, edge_cost : EdgeCosts]]

EDGE_MIN_EFFICIENCY == 1                    \* 0.1, in tenths

\* Edge.is_usable
IsUsable_mC22(edge) == TRUE
IsUsable(edge) == edge.transfer_efficiency >= EDGE_MIN_EFFICIENCY

NoPath == [path |-> <<>>, cost |-> -1, efficiency |-> [n |-> 0, d |-> 1]]

\* list comparison of Python: the first differing element decides, a proper
\* prefix is the smaller
PathLess(p, q) ==
    \/ \E i \in 1..Len(p) :
          /\ i <= Len(q)
          /\ \A j \in 1..(i - 1) : p[j] = q[j]
          /\ RRank[p[i]] < RRank[q[i]]
    \/ /\ Len(p) < Len(q)
       /\ \A j \in 1..Len(p) : p[j] = q[j]

\* tuple comparison of the heap entries (cost, node_id, path, efficiency)
EntryLess(x, y) ==
    \/ x.cost < y.cost
    \/ x.cost = y.cost /\ RRank[x.node] < RRank[y.node]
    \/ x.cost = y.cost /\ x.node = y.node /\ PathLess(x.path, y.path)

\* the entries one popped entry pushes: over each usable edge between the
\* current node and a node not visited, walked against its direction when
\* the search runs backwards from the target
Pushed(g, e, visited, backwards) ==
    {[cost |-> e.cost + g[k].edge_cost,
      node |-> IF backwards THEN k[1] ELSE k[2],
      path |-> Append(e.path, IF backwards THEN k[1] ELSE k[2]),
      efficiency |-> [n |-> e.efficiency.n * g[k].transfer_efficiency,
                      d |-> e.efficiency.d * 10]] :
        k \in {k \in EdgeKeys :
                 /\ (IF backwards THEN k[2] ELSE k[1]) = e.node
                 /\ (IF backwards THEN k[1] ELSE k[2]) \notin visited
                 /\ IsUsable(g[k])}}

\* the while loop of both searches: pop the least entry, skip it when its
\* node has been visited, stop when it is a goal, push its neighbours
RECURSIVE DijkstraLoop(_, _, _, _, _)
DijkstraLoop(g, pq, visited, goals, backwards) ==
    IF pq = {} THEN NoPath
    ELSE LET e == CHOOSE x \in pq : \A y \in pq \ {x} : EntryLess(x, y)
         IN  IF e.node \in visited
             THEN DijkstraLoop(g, pq \ {e}, visited, goals, backwards)
             ELSE IF e.node \in goals
             THEN [path |-> e.path, cost |-> e.cost, efficiency |-> e.efficiency]
             ELSE DijkstraLoop(g,
                               (pq \ {e}) \cup Pushed(g, e, visited \cup {e.node}, backwards),
                               visited \cup {e.node}, goals, backwards)

Reversed(p) == [i \in 1..Len(p) |-> p[Len(p) + 1 - i]]

\* _dijkstra_to_sources: (path from source to target, cost, deliverable energy)
DijkstraToSources(g, target_id, source_ids) ==
    LET r == DijkstraLoop(g, {[cost |-> 0, node |-> target_id, path |-> <<target_id>>,
                               efficiency |-> [n |-> 1, d |-> 1]]},
                          {}, source_ids, TRUE)
    IN  IF r.path = <<>> THEN NoPath
        ELSE [path |-> Reversed(r.path), cost |-> r.cost,
              efficiency |-> [n |-> RShareable[r.path[Len(r.path)]] * r.efficiency.n,
                              d |-> r.efficiency.d]]

\* find_best_energy_path: (path, cost, cumulative efficiency)
FindBestEnergyPath(g, source_id, target_id) ==
    IF source_id = target_id
    THEN [path |-> <<source_id>>, cost |-> 0, efficiency |-> [n |-> 1, d |-> 1]]
    ELSE DijkstraLoop(g, {[cost |-> 0, node |-> source_id, path |-> <<source_id>>,
                           efficiency |-> [n |-> 1, d |-> 1]]},
                      {}, {target_id}, FALSE)

----------------------------------------------------------------------------
(* The wire codec (src/src/messages/messages.py).  A buffer is a sequence  *)
(* of bytes 0..255; struct's big-endian packing is computed byte by byte.  *)

\* Python's data[a:b] for 0 <= a <= b: the bytes that exist in that range
Slice(data, a, b) == SubSeq(data, a + 1, IF b < Len(data) THEN b ELSE Len(data))

\* MessageHeader.pack, format "!HBI6sH": "6s" cuts sender_id to 6 bytes and
\* pads a shorter one with zero bytes
HeaderPack(h) ==
    <<h.msg_type \div 256, h.msg_type % 256, h.ttl,
      h.seq_num \div 16777216, (h.seq_num \div 65536) % 256,
      (h.seq_num \div 256) % 256, h.seq_num % 256>>
    \o [i \in 1..6 |-> IF i <= Len(h.sender_id) THEN h.sender_id[i] ELSE 0]
    \o <<h.payload_len \div 256, h.payload_len % 256>>

HEADER_SIZE == 15

\* MessageHeader.unpack of a 15-byte buffer
HeaderUnpack(d) ==
    [msg_type |-> d[1] * 256 + d[2],
     ttl |-> d[3],
     seq_num |-> d[4] * 16777216 + d[5] * 65536 + d[6] * 256 + d[7],
     sender_id |-> SubSeq(d, 8, 13),
     payload_len |-> d[14] * 256 + d[15]]

\* TLV.__init__ and TLV.pack of a value of at most 255 bytes
NewTlv(type, value) == [type |-> type, length |-> Len(value), value |-> value]
TlvPack(tlv) == <<tlv.type, Len(tlv.value)>> \o tlv.value

\* b"".join(tlv.pack() for tlv in self.tlvs)
RECURSIVE JoinTlvs(_)
JoinTlvs(tlvs) == IF tlvs = <<>> THEN <<>> ELSE TlvPack(Head(tlvs)) \o JoinTlvs(Tail(tlvs))

\* MVCCPMessage.__init__ followed by add_tlv for each TLV
NewMessage(msg_type, ttl, seq_num, sender_id, tlvs) ==
    [header |-> [msg_type |-> msg_type, ttl |-> ttl, seq_num |-> seq_num,
                 sender_id |-> sender_id, payload_len |-> Len(JoinTlvs(tlvs))],
     tlvs |-> tlvs]

\* encode: the message with header.payload_len set, and the buffer
EncodedMessage(m) == [m EXCEPT !.header.payload_len = Len(JoinTlvs(m.tlvs))]
Encode(m) == HeaderPack(EncodedMessage(m).header) \o JoinTlvs(m.tlvs)

NoHeader == [msg_type |-> 0, ttl |-> 0, seq_num |-> 0, sender_id |-> <<>>, payload_len |-> 0]
Raised(e) == [error |-> e, header |-> NoHeader, tlvs |-> <<>>]

\* TLV.unpack_from at a 0-based offset: the TLV, or the ValueError
UnpackFrom(data, offset) ==
    IF Len(data) < offset + 2
    THEN [error |-> "ValueError: Data too short for TLV header", tlv |-> NewTlv(0, <<>>)]
    ELSE IF Len(data) < offset + 2 + data[offset + 2]
    THEN [error |-> "ValueError: Data too short for TLV value", tlv |-> NewTlv(0, <<>>)]
    ELSE [error |-> "none",
          tlv |-> NewTlv(data[offset + 1],
                         Slice(data, offset + 2, offset + 2 + data[offset + 2]))]

\* the while loop of decode
RECURSIVE DecodeTlvs(_, _)
DecodeTlvs(payload, offset) ==
    IF ~(offset < Len(payload)) THEN [error |-> "none", tlvs |-> <<>>]
    ELSE LET u == UnpackFrom(payload, offset)
         IN  IF u.error # "none" THEN [error |-> u.error, tlvs |-> <<>>]
             ELSE LET rest == DecodeTlvs(payload, offset + 2 + u.tlv.length)
                  IN  IF rest.error # "none" THEN rest
                      ELSE [error |-> "none", tlvs |-> <<u.tlv>> \o rest.tlvs]

KnownTlvTypes == {1, 2, 80}

\* MVCCPMessage.decode: the message, or the ValueError
Decode_mC23(data) ==
    IF Len(data) < HEADER_SIZE THEN Raised("ValueError: Data too short for MVCCP header")
    ELSE LET header == HeaderUnpack(Slice(data, 0, HEADER_SIZE))
             payload == Slice(data, HEADER_SIZE, HEADER_SIZE + header.payload_len)
             r == DecodeTlvs(payload, 0)
         IN  IF r.error # "none" THEN Raised(r.error)
             ELSE [error |-> "none", header |-> header,
                   tlvs |-> SelectSeq(r.tlvs, LAMBDA t : t.type \in KnownTlvTypes)]
Decode(data) ==
    IF Len(data) < HEADER_SIZE THEN Raised("ValueError: Data too short for MVCCP header")
    ELSE LET header == HeaderUnpack(Slice(data, 0, HEADER_SIZE))
             payload == Slice(data, HEADER_SIZE, HEADER_SIZE + header.payload_len)
             r == DecodeTlvs(payload, 0)
         IN  IF r.error # "none" THEN Raised(r.error)
             ELSE [error |-> "none", header |-> header, tlvs |-> r.tlvs]

\* the messages a sender builds: known and unknown message and TLV types,
\* empty, short and 255-byte values, sender ids of 6 bytes and shorter
TlvChoices ==
    {NewTlv(1, <<>>), NewTlv(200, <<7>>), NewTlv(80, <<0, 9>>),
     NewTlv(2, [i \in 1..255 |-> 255])}
TlvLists ==
    {<<>>} \cup {<<t>> : t \in TlvChoices} \cup {<<t, u>> : t \in TlvChoices, u \in TlvChoices}
WireMessages ==
    {NewMessage(ty, ttl, sq, id, tlvs) :
        ty \in {1, 300}, ttl \in {0, 255}, sq \in {258, 2147483647},
        id \in {<<0, 0, 0, 0, 0, 1>>, <<78, 79, 68, 69, 95, 65>>, <<65>>},
        tlvs \in TlvLists}

NotDecoded == Raised("not decoded")

----------------------------------------------------------------------------
(* RWLock (src/src/protocol/locks.py): a threading.Condition over a plain  *)
(* Lock, and a reader count.  Each thread runs the methods one statement   *)
(* at a time; pc is the statement a thread is at.                          *)

LThreads == {"t1", "t2", "t3"}

InitLock ==
    [mutex |-> None, readers |-> 0, waiters |-> {},
     pc |-> [t \in LThreads |-> "idle"], shared |-> FALSE]

\* the loop condition of acquire_write, negated
ReadersGone_mC21(l) == TRUE
ReadersGone(l) == ~(l.readers > 0)

\* acquire_read: take the mutex, count the reader, give the mutex back
AcquireRead(l, t) ==
    CASE l.pc[t] = "idle"      -> [l EXCEPT !.pc[t] = "ar_lock"]
      [] l.pc[t] = "ar_lock"   -> [l EXCEPT !.mutex = t, !.pc[t] = "ar_inc"]
      [] l.pc[t] = "ar_inc"    -> [l EXCEPT !.readers = @ + 1, !.pc[t] = "ar_unlock"]
      [] l.pc[t] = "ar_unlock" -> [l EXCEPT !.mutex = None, !.pc[t] = "reading"]

\* release_read: take the mutex, uncount the reader, wake the waiters when
\* it was the last one, give the mutex back
ReleaseRead(l, t) ==
    CASE l.pc[t] = "reading"   -> [l EXCEPT !.pc[t] = "rr_lock"]
      [] l.pc[t] = "rr_lock"   -> [l EXCEPT !.mutex = t, !.pc[t] = "rr_dec"]
      [] l.pc[t] = "rr_dec"    ->
            IF l.readers - 1 = 0
            THEN [l EXCEPT !.readers = @ - 1, !.waiters = {},
                           !.pc = [u \in LThreads |->
                                     IF u = t THEN "rr_unlock"
                                     ELSE IF u \in l.waiters THEN "aw_lock"
                                     ELSE l.pc[u]]]
            ELSE [l EXCEPT !.readers = @ - 1, !.pc[t] = "rr_unlock"]
      [] l.pc[t] = "rr_unlock" -> [l EXCEPT !.mutex = None, !.pc[t] = "idle"]

\* acquire_write: take the mutex and, while readers are inside, wait on the
\* condition (which gives the mutex back until notified); returns holding
\* the mutex
AcquireWrite(l, t) ==
    CASE l.pc[t] = "idle"      -> [l EXCEPT !.pc[t] = "aw_lock"]
      [] l.pc[t] = "aw_lock"   -> [l EXCEPT !.mutex = t, !.pc[t] = "aw_check"]
      [] l.pc[t] = "aw_check"  ->
            IF ReadersGone(l)
            THEN [l EXCEPT !.pc[t] = "writing"]
            ELSE [l EXCEPT !.mutex = None, !.waiters = @ \cup {t},
                           !.pc[t] = "aw_wait"]

\* release_write: give the mutex back
ReleaseWrite(l, t) == [l EXCEPT !.mutex = None, !.pc[t] = "idle"]

Reading(l) == {t \in LThreads : l.pc[t] = "reading"}
Writing(l) == {t \in LThreads : l.pc[t] = "writing"}

\* no lock, edge graph or message is part of the other specifications
InitZ ==
    /\ lk = None
    /\ route = None
    /\ wire = None
    /\ nt = None

InitY ==
    /\ platoon = InitPlatoon
    /\ shareable \in ShareableProfiles
    /\ rreh = InitRreh
    /\ veh = InitVeh
    /\ vhist = [at |-> 0, heard |-> FALSE]
    /\ snapshot = [n \in ONodes |-> [present |-> FALSE, two_hop_neighbors |-> {}, qos |-> 1]]
    /\ mpr_set = {}

\* the specifications that call nothing on the Platoon take its first
\* energy profile
InitX == InitY /\ InitZ /\ shareable["N1"] = 2

----------------------------------------------------------------------------
(* History variables: what the consumer has sent and received in its      *)
(* session, recorded from the packets themselves.                          *)

Sends(o, t) == \E i \in 1..Len(o) : o[i].type = t

NoOp == [name |-> "none", node |-> None, msg |-> None]

HistTick(c) ==
    /\ hs' = [hs EXCEPT ![c] =
            IF cstate[c] = "EVALUATE" /\ Sends(out', "JOIN_OFFER") THEN 1
            ELSE IF cstate[c] \in WaitStates /\ cstate'[c] = "DISCOVER" THEN 0
            ELSE IF @ = 2 /\ Sends(out', "ACK") THEN 3
            ELSE @]
    /\ hsProv' = [hsProv EXCEPT ![c] =
            IF cstate[c] = "EVALUATE" /\ Sends(out', "JOIN_OFFER")
            THEN session'[c].provider_id ELSE @]
    /\ resends' = [resends EXCEPT ![c] =
            IF cstate[c] = "EVALUATE" /\ Sends(out', "JOIN_OFFER") THEN 0
            ELSE IF cstate[c] \in WaitStates THEN @ + Len(out')
            ELSE @]
    /\ blAt' = [blAt EXCEPT ![c] = [p \in Providers |->
            IF blacklist'[c][p] # NoTime /\ blacklist'[c][p] # blacklist[c][p]
            THEN now ELSE @[p]]]
    /\ cleared' = [cleared EXCEPT ![c] = [p \in Providers |->
            IF blacklist'[c][p] # NoTime /\ blacklist'[c][p] # blacklist[c][p]
            THEN FALSE ELSE @[p]]]

HistAccept(c, m) ==
    /\ hs' = [hs EXCEPT ![c] =
            IF @ = 1 /\ cstate[c] = "WAIT_ACCEPT" /\ m.provider_id = hsProv[c]
            THEN (IF Sends(out', "ACK") THEN 3 ELSE 2)
            ELSE @]
    /\ UNCHANGED <<hsProv, resends, blAt, cleared>>

HistAckAck(c, m) ==
    /\ hs' = [hs EXCEPT ![c] =
            IF @ = 3 /\ cstate[c] = "WAIT_ACKACK" /\ m.provider_id = hsProv[c]
            THEN 4 ELSE @]
    /\ UNCHANGED <<hsProv, resends, blAt, cleared>>

HistFinish(c) ==
    /\ hs' = [hs EXCEPT ![c] = IF cstate'[c] = "DISCOVER" THEN 0 ELSE @]
    /\ cleared' = [cleared EXCEPT ![c] =
            IF cstate[c] = "CHARGE" THEN [p \in Providers |-> TRUE] ELSE @]
    /\ UNCHANGED <<hsProv, resends, blAt>>

----------------------------------------------------------------------------
(* SpecC: one consumer from construction.  The environment advances the   *)
(* clock, delivers provider announcements up to MaxPATime and delivers     *)
(* JOIN_ACCEPT / ACKACK packets of any provider at any time.               *)

SoloConsumers == {"C1"}

\* node_role after construction: vehicles start as consumers; the head of
\* a platoon has been promoted to PLATOON_HEAD
InitRole == [n \in Nodes |-> IF n \in Consumers THEN "CONSUMER" ELSE "PLATOON_HEAD"]

InitCore ==
    /\ now = 0
    /\ role = InitRole
    /\ cstate = [c \in Consumers |-> "DISCOVER"]
    /\ session = [c \in Consumers |-> EmptySession]
    /\ blacklist = [c \in Consumers |-> [p \in Providers |-> NoTime]]
    /\ ptable = [c \in Consumers |-> [p \in Providers |-> NoEntry]]
    /\ out = <<>>
    /\ op = NoOp
    /\ hs = [c \in Consumers |-> 0]
    /\ hsProv = [c \in Consumers |-> None]
    /\ resends = [c \in Consumers |-> 0]
    /\ blAt = [c \in Consumers |-> [p \in Providers |-> NoTime]]
    /\ cleared = [c \in Consumers |-> [p \in Providers |-> FALSE]]
    /\ ph = [p \in PlatoonProviders |-> InitHead(p)]
    /\ inbox = [n \in Nodes |-> <<>>]
    /\ ackFor = [p \in PlatoonProviders |-> {}]
    /\ seen_messages = [n \in Nodes |-> {}]
    /\ mpr_selector_set = [n \in Nodes |-> {}]
    /\ pa_receive_count = [n \in Nodes |-> 0]
    /\ pa_receive_window_start = [n \in Nodes |-> 0]
    /\ paRecv = [n \in Nodes |-> {}]

InitC == InitCore /\ InitX

\* Instants at which the clock is sampled: the pending deadlines of the
\* consumer, on both sides of the comparison the code makes with each
\* (timestamp > timeout_time, timestamp >= next_retry_time,
\* current_time < blacklist_until).
SessionDeadlines(c) ==
    (IF cstate[c] \in WaitStates /\ session[c].next_retry_time = NoTime
     THEN {session[c].timeout_time, session[c].timeout_time + 1} ELSE {})
    \cup
    (IF cstate[c] \in WaitStates /\ session[c].next_retry_time # NoTime
     THEN {session[c].next_retry_time, session[c].next_retry_time + 1} ELSE {})

BlacklistDeadlines(c) ==
    UNION {{blacklist[c][p] - 1, blacklist[c][p], blacklist[c][p] + 1} :
              p \in {q \in Providers : blacklist[c][q] # NoTime}}

ClockStep(c, t, limit) ==
    /\ t > now
    /\ t <= limit
    /\ now' = t
    /\ out' = <<>>
    /\ op' = [name |-> "clock", node |-> None, msg |-> None]
    /\ UNCHANGED <<role, cstate, session, blacklist, ptable,
                   hs, hsProv, resends, blAt, cleared, hvars, pvars, xvars>>

AdvanceTime ==
    \E c \in SoloConsumers : \E t \in SessionDeadlines(c) \cup BlacklistDeadlines(c) :
        ClockStep(c, t, MaxTime)

CTick ==
    \E c \in SoloConsumers :
        /\ ConsumerTick(c)
        /\ HistTick(c)
        /\ op' = [name |-> "tick", node |-> c, msg |-> None]
        /\ UNCHANGED <<now, role, hvars, pvars, xvars>>

CRecvJoinAccept ==
    \E c \in SoloConsumers, p \in Providers :
        /\ HandleJoinAccept(c, JoinAcceptMsg(p))
        /\ HistAccept(c, JoinAcceptMsg(p))
        /\ op' = [name |-> "rx", node |-> c, msg |-> JoinAcceptMsg(p)]
        /\ UNCHANGED <<now, role, blacklist, ptable, hvars, pvars, xvars>>

CRecvAckAck ==
    \E c \in SoloConsumers, p \in Providers :
        /\ HandleAckAck(c, AckAckMsg(p))
        /\ HistAckAck(c, AckAckMsg(p))
        /\ op' = [name |-> "rx", node |-> c, msg |-> AckAckMsg(p)]
        /\ UNCHANGED <<now, role, blacklist, ptable, hvars, pvars, xvars>>

CStartTravel ==
    \E c \in SoloConsumers :
        /\ StartTravel(c)
        /\ op' = [name |-> "start_travel", node |-> c, msg |-> None]
        /\ UNCHANGED <<now, role, hs, hsProv, resends, blAt, cleared, hvars, pvars, xvars>>

CStartCharging ==
    \E c \in SoloConsumers :
        /\ StartCharging(c)
        /\ op' = [name |-> "start_charging", node |-> c, msg |-> None]
        /\ UNCHANGED <<now, role, hs, hsProv, resends, blAt, cleared, hvars, pvars, xvars>>

CFinishCharging ==
    \E c \in SoloConsumers :
        /\ FinishCharging(c)
        /\ HistFinish(c)
        /\ op' = [name |-> "finish_charging", node |-> c, msg |-> None]
        /\ UNCHANGED <<now, role, hvars, pvars, xvars>>

CUpdateProvider ==
    \E c \in SoloConsumers, p \in Providers, cap \in BOOLEAN :
        /\ now <= MaxPATime
        /\ UpdateProvider(c, p, cap)
        /\ op' = [name |-> "update_provider", node |-> c, msg |-> None]
        /\ UNCHANGED <<now, role, hs, hsProv, resends, blAt, cleared, hvars, pvars, xvars>>

NextC ==
    \/ AdvanceTime
    \/ CTick
    \/ CRecvJoinAccept
    \/ CRecvAckAck
    \/ CStartTravel
    \/ CStartCharging
    \/ CFinishCharging
    \/ CUpdateProvider

SpecC == InitC /\ [][NextC]_vars

\* SpecCF: the consumer with providers that answer an offer at most with a
\* JOIN_ACCEPT and never send an ACKACK, under the scheduling of the
\* simulation loop: the clock keeps advancing and every tick is delivered.
CFAdvanceTime ==
    \E c \in SoloConsumers : \E t \in SessionDeadlines(c) \cup BlacklistDeadlines(c) :
        ClockStep(c, t, MaxTimeCF)

NextCF ==
    \/ CFAdvanceTime
    \/ CTick
    \/ CRecvJoinAccept
    \/ CUpdateProvider

FairC ==
    /\ WF_vars(CFAdvanceTime)
    /\ \A c \in SoloConsumers : WF_vars(CTick /\ op'.node = c)

SpecCF == InitC /\ [][NextCF]_vars /\ FairC

----------------------------------------------------------------------------
(* SpecBL: the consumer from the instant a provider has been blacklisted   *)
(* (a state SpecC reaches, see BlacklistedState).  Announcements keep      *)
(* arriving and packets are delivered at any time; the clock is sampled    *)
(* around the expiry of blacklist entries only.                            *)

\* earliest instant at which a session that started at 0 has used up its
\* retries: four accept timeouts, each detected one tick after it expired,
\* and the three shortest backoffs between them
BlacklistedAtBL ==
    4 * (ACCEPT_TIMEOUT + 1)
      + CalculateBackoff(0, 0 - RETRY_MAX_JITTER)
      + CalculateBackoff(1, 0 - RETRY_MAX_JITTER)
      + CalculateBackoff(2, 0 - RETRY_MAX_JITTER)
FirstBlacklisted == "P1"

BlacklistedState ==
    /\ now = BlacklistedAtBL
    /\ role = InitRole
    /\ cstate = [c \in Consumers |-> "DISCOVER"]
    /\ session = [c \in Consumers |-> EmptySession]
    /\ blacklist = [c \in Consumers |-> [p \in Providers |->
            IF c \in SoloConsumers /\ p = FirstBlacklisted
            THEN BlacklistedAtBL + BLACKLIST_DURATION ELSE NoTime]]
    /\ ptable = [c \in Consumers |-> [p \in Providers |-> NoEntry]]
    /\ out = <<>>
    /\ op = [name |-> "tick", node |-> "C1", msg |-> None]
    /\ hs = [c \in Consumers |-> 0]
    /\ hsProv = [c \in Consumers |-> IF c \in SoloConsumers THEN FirstBlacklisted ELSE None]
    /\ resends = [c \in Consumers |-> IF c \in SoloConsumers THEN RETRY_MAX_RETRIES ELSE 0]
    /\ blAt = [c \in Consumers |-> [p \in Providers |->
            IF c \in SoloConsumers /\ p = FirstBlacklisted THEN BlacklistedAtBL ELSE NoTime]]
    /\ cleared = [c \in Consumers |-> [p \in Providers |-> FALSE]]
    /\ ph = [p \in PlatoonProviders |-> InitHead(p)]
    /\ inbox = [n \in Nodes |-> <<>>]
    /\ ackFor = [p \in PlatoonProviders |-> {}]
    /\ seen_messages = [n \in Nodes |-> {}]
    /\ mpr_selector_set = [n \in Nodes |-> {}]
    /\ pa_receive_count = [n \in Nodes |-> 0]
    /\ pa_receive_window_start = [n \in Nodes |-> 0]
    /\ paRecv = [n \in Nodes |-> {}]
    /\ InitX

InitBL == BlacklistedState

AdvanceTimeBL ==
    \E c \in SoloConsumers : \E t \in BlacklistDeadlines(c) :
        ClockStep(c, t, MaxTimeBL)

BLUpdateProvider ==
    \E c \in SoloConsumers, p \in Providers, cap \in BOOLEAN :
        /\ UpdateProvider(c, p, cap)
        /\ op' = [name |-> "update_provider", node |-> c, msg |-> None]
        /\ UNCHANGED <<now, role, hs, hsProv, resends, blAt, cleared, hvars, pvars, xvars>>

NextBL ==
    \/ AdvanceTimeBL
    \/ CTick
    \/ CRecvJoinAccept
    \/ CRecvAckAck
    \/ CStartTravel
    \/ CStartCharging
    \/ CFinishCharging
    \/ BLUpdateProvider

SpecBL == InitBL /\ [][NextBL]_vars

----------------------------------------------------------------------------
(* SpecHS: two consumers and one platoon head on a broadcast medium.  A    *)
(* packet handed to send_callback reaches the socket of every other node;  *)
(* each node dispatches its received packets in order.                     *)

\* dispatch_message: the packets a node's role hands to a Layer-C handler
Dispatched(n, m) ==
    \/ role[n] = "CONSUMER" /\ m.type \in {"JOIN_ACCEPT", "ACKACK"}
    \/ role[n] = "PLATOON_HEAD" /\ m.type \in {"JOIN_OFFER", "ACK"}

\* send_packet: broadcast; a socket whose queue is full drops the packet
Broadcast(sender, o, box) ==
    [n \in Nodes |->
        LET ms == SelectSeq(o, LAMBDA m : Dispatched(n, m))
        IN  IF n = sender \/ Len(box[n]) + Len(ms) > MaxInbox
            THEN box[n] ELSE box[n] \o ms]

InitHS ==
    /\ now = 0
    /\ role = InitRole
    /\ cstate = [c \in Consumers |-> "DISCOVER"]
    /\ session = [c \in Consumers |-> EmptySession]
    /\ blacklist = [c \in Consumers |-> [p \in Providers |-> NoTime]]
    /\ ptable = [c \in Consumers |-> [p \in Providers |-> NoEntry]]
    /\ out = <<>>
    /\ op = NoOp
    /\ hs = [c \in Consumers |-> 0]
    /\ hsProv = [c \in Consumers |-> None]
    /\ resends = [c \in Consumers |-> 0]
    /\ blAt = [c \in Consumers |-> [p \in Providers |-> NoTime]]
    /\ cleared = [c \in Consumers |-> [p \in Providers |-> FALSE]]
    /\ ph = [p \in PlatoonProviders |-> InitHead(p)]
    /\ inbox = [n \in Nodes |-> <<>>]
    /\ ackFor = [p \in PlatoonProviders |-> {}]
    /\ seen_messages = [n \in Nodes |-> {}]
    /\ mpr_selector_set = [n \in Nodes |-> {}]
    /\ pa_receive_count = [n \in Nodes |-> 0]
    /\ pa_receive_window_start = [n \in Nodes |-> 0]
    /\ paRecv = [n \in Nodes |-> {}]
    /\ InitX

HSAdvanceTime ==
    /\ now < MaxTimeHS
    /\ now' = now + 1
    /\ out' = <<>>
    /\ op' = [name |-> "clock", node |-> None, msg |-> None]
    /\ UNCHANGED <<role, cstate, session, blacklist, ptable,
                   hs, hsProv, resends, blAt, cleared, hvars, pvars, xvars>>

\* a provider announcement of the platoon head reaches a consumer
HSUpdateProvider ==
    \E c \in Consumers, p \in PlatoonProviders :
        /\ now <= MaxPATime
        /\ UpdateProvider(c, p, TRUE)
        /\ op' = [name |-> "update_provider", node |-> c, msg |-> None]
        /\ UNCHANGED <<now, role, hs, hsProv, resends, blAt, cleared, hvars, pvars, xvars>>

HSConsumerTick ==
    \E c \in Consumers :
        /\ ConsumerTick(c)
        /\ HistTick(c)
        /\ inbox' = Broadcast(c, out', inbox)
        /\ op' = [name |-> "tick", node |-> c, msg |-> None]
        /\ UNCHANGED <<now, role, ph, ackFor, pvars, xvars>>

HSHeadTick ==
    \E p \in PlatoonProviders :
        /\ HeadTick(p)
        /\ inbox' = Broadcast(p, out', inbox)
        /\ op' = [name |-> "tick", node |-> p, msg |-> None]
        /\ UNCHANGED <<now, role, cstate, session, blacklist, ptable,
                       hs, hsProv, resends, blAt, cleared, ackFor, pvars, xvars>>

\* ReceivePacket on a consumer: JOIN_ACCEPT and ACKACK go to the handler
HSConsumerReceive ==
    \E c \in Consumers :
        /\ inbox[c] # <<>>
        /\ LET m == Head(inbox[c])
           IN  /\ IF m.type = "JOIN_ACCEPT"
                  THEN HandleJoinAccept(c, m) /\ HistAccept(c, m)
                  ELSE HandleAckAck(c, m) /\ HistAckAck(c, m)
               /\ inbox' = Broadcast(c, out', [inbox EXCEPT ![c] = Tail(@)])
               /\ op' = [name |-> "rx", node |-> c, msg |-> m]
        /\ UNCHANGED <<now, role, blacklist, ptable, ph, ackFor, pvars, xvars>>

\* ReceivePacket on the platoon head: JOIN_OFFER and ACK go to the handler
HSHeadReceive ==
    \E p \in PlatoonProviders :
        /\ inbox[p] # <<>>
        /\ LET m == Head(inbox[p])
           IN  /\ IF m.type = "JOIN_OFFER"
                  THEN HeadHandleJoinOffer(p, m) /\ UNCHANGED ackFor
                  ELSE /\ HeadHandleAck(p, m)
                       /\ ackFor' = [ackFor EXCEPT ![p] =
                            IF Sends(out', "ACKACK") THEN @ \cup {ConsumerIdOf(m)} ELSE @]
               /\ inbox' = Broadcast(p, out', [inbox EXCEPT ![p] = Tail(@)])
               /\ op' = [name |-> "rx", node |-> p, msg |-> m]
        /\ UNCHANGED <<now, role, cstate, session, blacklist, ptable,
                       hs, hsProv, resends, blAt, cleared, pvars, xvars>>

NextHS ==
    \/ HSAdvanceTime
    \/ HSUpdateProvider
    \/ HSConsumerTick
    \/ HSHeadTick
    \/ HSConsumerReceive
    \/ HSHeadReceive

SpecHS == InitHS /\ [][NextHS]_vars

----------------------------------------------------------------------------
(* SpecPA: one node's Layer B.  Neighbours deliver provider announcements  *)
(* of any content; the node's mpr_selector_set, which no code of the       *)
(* repository writes, holds whatever its embedding put there.              *)

PANodes == {"C1"}
PASenders == {"P1"}                \* originators of the PAs the node receives
Selectors == {"P1", "C2"}          \* neighbours that may have selected the node as MPR
HopIds == {"P1", "C2"}             \* node ids a PREVIOUS_HOP TLV may carry

\* sequences of PREVIOUS_HOP TLVs, up to k of them
RECURSIVE HopTlvs(_)
HopTlvs(k) ==
    IF k = 0 THEN {<<>>}
    ELSE LET shorter == HopTlvs(k - 1)
         IN  shorter \cup {Append(q, Tlv("PREVIOUS_HOP", x)) : q \in shorter, x \in HopIds}

\* the PAs neighbours deliver: the PROVIDER_ID TLV, when present, names the
\* originator, and the announced provider has capacity
PAMsgs ==
    UNION {{PAMsg(snd, seq, ttl, pid \o hops, TRUE) :
                seq \in 1..MaxSeq, ttl \in 0..MaxTTL,
                pid \in {<<>>, <<Tlv("PROVIDER_ID", snd)>>},
                hops \in HopTlvs(MaxPrevHops)} : snd \in PASenders}

InitPA ==
    /\ now = 0
    /\ role = InitRole
    /\ cstate = [c \in Consumers |-> "DISCOVER"]
    /\ session = [c \in Consumers |-> EmptySession]
    /\ blacklist = [c \in Consumers |-> [p \in Providers |-> NoTime]]
    /\ ptable = [c \in Consumers |-> [p \in Providers |-> NoEntry]]
    /\ out = <<>>
    /\ op = NoOp
    /\ hs = [c \in Consumers |-> 0]
    /\ hsProv = [c \in Consumers |-> None]
    /\ resends = [c \in Consumers |-> 0]
    /\ blAt = [c \in Consumers |-> [p \in Providers |-> NoTime]]
    /\ cleared = [c \in Consumers |-> [p \in Providers |-> FALSE]]
    /\ ph = [p \in PlatoonProviders |-> InitHead(p)]
    /\ inbox = [n \in Nodes |-> <<>>]
    /\ ackFor = [p \in PlatoonProviders |-> {}]
    /\ seen_messages = [n \in Nodes |-> {}]
    /\ \E S \in SUBSET Selectors :
          mpr_selector_set = [n \in Nodes |-> IF n \in PANodes THEN S ELSE {}]
    /\ pa_receive_count = [n \in Nodes |-> 0]
    /\ pa_receive_window_start = [n \in Nodes |-> 0]
    /\ paRecv = [n \in Nodes |-> {}]
    /\ InitX

PAAdvanceTime ==
    /\ now < MaxTimePA
    /\ now' = now + 1
    /\ out' = <<>>
    /\ op' = [name |-> "clock", node |-> None, msg |-> None]
    /\ UNCHANGED <<role, cstate, session, blacklist, ptable,
                   hs, hsProv, resends, blAt, cleared, hvars, pvars, xvars>>

\* ReceivePacket dispatching a PA to handle_pa
PAReceive ==
    \E n \in PANodes, m \in PAMsgs :
        /\ HandlePA(n, m)
        /\ paRecv' = [paRecv EXCEPT ![n] = @ \cup {MsgKey(m)}]
        /\ op' = [name |-> "rx", node |-> n, msg |-> m]
        /\ UNCHANGED <<now, role, cstate, session, blacklist,
                       hs, hsProv, resends, blAt, cleared, hvars, mpr_selector_set, xvars>>

NextPA ==
    \/ PAAdvanceTime
    \/ PAReceive

SpecPA == InitPA /\ [][NextPA]_vars

----------------------------------------------------------------------------
(* SpecT: the context's clock under update_time calls with any timestamp,  *)
(* backward ones included.                                                 *)

\* mutant: update_time without the monotonicity check
UpdateTime_mC12(ts) ==
    /\ now' = ts
    /\ op' = [name |-> "update_time", node |-> None, msg |-> ts]

\* MVCCPContext.update_time: a backward timestamp raises ValueError before
\* current_time is written
UpdateTime(ts) ==
    IF ts < now
    THEN /\ now' = now
         /\ op' = [name |-> "ValueError", node |-> None, msg |-> ts]
    ELSE /\ now' = ts
         /\ op' = [name |-> "update_time", node |-> None, msg |-> ts]

InitT == InitC

TUpdateTime ==
    \E ts \in 0..MaxTS :
        /\ UpdateTime(ts)
        /\ out' = <<>>
        /\ UNCHANGED <<role, cstate, session, blacklist, ptable,
                       hs, hsProv, resends, blAt, cleared, hvars, pvars, xvars>>

NextT == TUpdateTime

SpecT == InitT /\ [][NextT]_vars

----------------------------------------------------------------------------
(* SpecPL: one Platoon object under add_node, remove_node and set_head     *)
(* calls with any vehicle, in any order.                                   *)

InitPL == InitCore /\ InitY /\ InitZ

\* what a call on the Platoon leaves alone
PLRest(name, n) ==
    /\ op' = [name |-> name, node |-> n, msg |-> None]
    /\ out' = <<>>
    /\ UNCHANGED <<now, role, cstate, session, blacklist, ptable,
                   hs, hsProv, resends, blAt, cleared, hvars, pvars, shareable, yvars, zvars>>

PLAddNode ==
    \E n \in PNodes :
        /\ platoon' = AddNode(platoon, n)
        /\ PLRest("add_node", n)

PLRemoveNode ==
    \E n \in PNodes :
        /\ platoon' = RemoveNode(platoon, n, shareable)
        /\ PLRest("remove_node", n)

PLSetHead ==
    \E n \in PNodes :
        /\ platoon' = SetHead(platoon, n)
        /\ PLRest("set_head", n)

NextPL ==
    \/ PLAddNode
    \/ PLRemoveNode
    \/ PLSetHead

SpecPL == InitPL /\ [][NextPL]_vars

----------------------------------------------------------------------------
(* SpecPH: one platoon head and the consumers around it.  The environment  *)
(* advances the clock to the head's deadlines and delivers JOIN_OFFER and  *)
(* ACK packets of any consumer at any time.                                *)

HConsumers == {"K1", "K2", "K3", "K4", "K5", "K6"}
HOrder == [c \in HConsumers |->
             CASE c = "K1" -> 1 [] c = "K2" -> 2 [] c = "K3" -> 3
               [] c = "K4" -> 4 [] c = "K5" -> 5 [] OTHER -> 6]

InitPH == InitC

\* instants at which the head's tick compares the clock with a deadline
HeadDeadlines(p) ==
    {ph[p].offer_window_start + OFFER_WINDOW,
     ph[p].current_target_timeout + 1,
     ph[p].last_beacon_time + BEACON_INTERVAL,
     ph[p].last_announce_time + PLATOON_ANNOUNCE_INTERVAL}

PHRest ==
    UNCHANGED <<role, cstate, session, blacklist, ptable,
                hs, hsProv, resends, blAt, cleared, inbox, pvars, xvars>>

PHAdvanceTime ==
    \E p \in PlatoonProviders : \E t \in HeadDeadlines(p) :
        /\ t > now
        /\ t <= MaxTimePH
        /\ now' = t
        /\ out' = <<>>
        /\ op' = [name |-> "clock", node |-> None, msg |-> None]
        /\ UNCHANGED <<ph, ackFor>>
        /\ PHRest

\* the head's tick; of the offers it has collected, the one of the consumer
\* that came into range first scores best
PHTick ==
    \E p \in PlatoonProviders :
        /\ HeadTick(p)
        /\ (ph[p].state = "EVALUATE_OFFERS" /\ ph'[p].state = "WAIT_ACK") =>
              \A i \in 1..Len(ph[p].pending_members) :
                  HOrder[ph'[p].current_target] <= HOrder[ph[p].pending_members[i]]
        /\ op' = [name |-> IF ph[p].state \in {"COORDINATE", "HANDOFF"} /\ ShouldHandoffRaises(p)
                            THEN "tick_error" ELSE "tick",
                   node |-> p, msg |-> None]
        /\ UNCHANGED <<now, ackFor>>
        /\ PHRest

\* a JOIN_OFFER arrives; consumers come into range in the order HOrder, and
\* a consumer that has been admitted negotiates no more
PHRecvJoinOffer ==
    \E p \in PlatoonProviders, c \in HConsumers :
        /\ ~InSeq(c, ph[p].platoon_members)
        /\ \A d \in HConsumers : HOrder[d] < HOrder[c] =>
                (InSeq(d, ph[p].pending_members) \/ InSeq(d, ph[p].platoon_members))
        /\ HeadHandleJoinOffer(p, JoinOfferMsg(c))
        /\ op' = [name |-> "rx", node |-> p, msg |-> JoinOfferMsg(c)]
        /\ UNCHANGED <<now, ackFor>>
        /\ PHRest

\* an ACK arrives, of the consumer the head waits for or of another one
AckSenders(p) ==
    {c \in HConsumers : c = ph[p].current_target \/ HOrder[c] = 1}

PHRecvAck ==
    \E p \in PlatoonProviders : \E c \in AckSenders(p) :
        /\ HeadHandleAck(p, AckMsg(c))
        /\ ackFor' = [ackFor EXCEPT ![p] =
                IF Sends(out', "ACKACK") THEN @ \cup {c} ELSE @]
        /\ op' = [name |-> "rx", node |-> p, msg |-> AckMsg(c)]
        /\ UNCHANGED now
        /\ PHRest

NextPH ==
    \/ PHAdvanceTime
    \/ PHTick
    \/ PHRecvJoinOffer
    \/ PHRecvAck

SpecPH == InitPH /\ [][NextPH]_vars

----------------------------------------------------------------------------
(* SpecRH: one RREH and the consumers that negotiate with it *)

RConsumers == {"K1", "K2", "K3", "K4", "K5"}

InitRH == InitC

\* the op record of a step that handles no packet
NoMsg ==
    [type |-> "none", sender_id |-> None, consumer_id |-> None,
     provider_id |-> None, meeting_point |-> None]

RHRest(name, m) ==
    /\ op' = [name |-> name, node |-> Hub, msg |-> m]
    /\ UNCHANGED <<role, cstate, session, blacklist, ptable,
                   hs, hsProv, resends, blAt, cleared, hvars, pvars,
                   platoon, shareable, veh, vhist, snapshot, mpr_set, zvars>>

\* the clock moves to the next instant at which a timer comparison of the
\* hub can change
RHAdvanceTime ==
    \E t \in {rreh.last_grid_status_time + GRID_STATUS_INTERVAL,
               rreh.offer_window_start + RREH_OFFER_WINDOW,
               rreh.current_target_timeout + 1} :
        /\ t > now
        /\ t <= MaxTimeRH
        /\ now' = t
        /\ out' = <<>>
        /\ UNCHANGED rreh
        /\ RHRest("clock", NoMsg)

RHTick ==
    /\ RrehTick
    /\ UNCHANGED now
    /\ RHRest("rreh_tick", NoMsg)

\* a JOIN_OFFER arrives; consumers come into range in the order HOrder
RHRecvJoinOffer ==
    \E c \in RConsumers :
        /\ \A d \in RConsumers : HOrder[d] < HOrder[c] =>
                (InSeq(d, rreh.consumer_queue) \/ d \in rreh.active_sessions)
        /\ RrehHandleJoinOffer(JoinOfferMsg(c))
        /\ UNCHANGED now
        /\ RHRest("rx", JoinOfferMsg(c))

\* an ACK arrives, of the consumer the hub waits for or of another one
RHRecvAck ==
    \E c \in {d \in RConsumers : d = rreh.current_target \/ HOrder[d] = 1} :
        /\ RrehHandleAck(AckMsg(c))
        /\ UNCHANGED now
        /\ RHRest("rx", AckMsg(c))

\* the simulation reports the end of a charging session
RHCompleteSession ==
    \E c \in RConsumers :
        /\ c \in rreh.active_sessions \/ HOrder[c] = 1
        /\ RrehCompleteSession(c)
        /\ UNCHANGED now
        /\ RHRest("complete_session", JoinOfferMsg(c))

NextRH ==
    \/ RHAdvanceTime
    \/ RHTick
    \/ RHRecvJoinOffer
    \/ RHRecvAck
    \/ RHCompleteSession

SpecRH == InitRH /\ [][NextRH]_vars

----------------------------------------------------------------------------
(* SpecRO: the RREH of SpecRH with two consumers, and an embedding that    *)
(* sets its operational state at any time.                                 *)

RORecvJoinOffer ==
    \E c \in {"K1", "K2"} :
        /\ RrehHandleJoinOffer(JoinOfferMsg(c))
        /\ UNCHANGED now
        /\ RHRest("rx", JoinOfferMsg(c))

ROSetOperationalState ==
    \E state \in {"normal", "congested", "limited", "offline", "closed"} :
        /\ RrehSetOperationalState(state)
        /\ UNCHANGED now
        /\ RHRest("set_operational_state", NoMsg)

NextRO ==
    \/ RHAdvanceTime
    \/ RHTick
    \/ RORecvJoinOffer
    \/ RHRecvAck
    \/ RHCompleteSession
    \/ ROSetOperationalState

SpecRO == InitRH /\ [][NextRO]_vars

----------------------------------------------------------------------------
(* SpecV: one vehicle under its role manager and its Layer D handler *)

InitV == InitC

VRest(name) ==
    /\ op' = [name |-> name, node |-> "V1", msg |-> None]
    /\ UNCHANGED <<role, cstate, session, blacklist, ptable,
                   hs, hsProv, resends, blAt, cleared, hvars, pvars,
                   platoon, shareable, rreh, snapshot, mpr_set, zvars>>

\* the clock moves to the next instant at which a timer comparison of the
\* Layer D handler can change
VAdvanceTime ==
    \E t \in {veh.last_beacon_time + BEACON_TIMEOUT,
               veh.last_beacon_time + BEACON_TIMEOUT + 1,
               vhist.at + BEACON_TIMEOUT + 1,
               veh.last_status_time + STATUS_INTERVAL} :
        /\ t > now
        /\ t <= MaxTimeV
        /\ now' = t
        /\ out' = <<>>
        /\ UNCHANGED <<veh, vhist>>
        /\ VRest("clock")

VRoleTick ==
    \E candidate \in BOOLEAN :
        /\ veh' = RoleManagerTick(veh, candidate)
        /\ out' = <<>>
        /\ UNCHANGED <<now, vhist>>
        /\ VRest("role_tick")

VCoordinationTick ==
    /\ CoordinationTick
    /\ UNCHANGED <<now, vhist>>
    /\ VRest("l4_tick")

VRecvBeacon ==
    \E platoon_id \in {"PL1", "PL2"} :
        /\ veh' = HandleBeacon(veh, "H1", platoon_id)
        /\ vhist' = IF veh'.last_beacon_time = now /\ veh'.current_head_id # None
                        /\ veh.role = "PLATOON_MEMBER"
                        /\ veh.current_platoon_id = platoon_id
                     THEN [vhist EXCEPT !.heard = TRUE] ELSE vhist
        /\ out' = <<>>
        /\ UNCHANGED now
        /\ VRest("rx_beacon")

\* the vehicle becomes a member of a platoon led by another node
VJoinPlatoon ==
    /\ veh.role # "PLATOON_MEMBER"
    /\ veh' = SetRole([veh EXCEPT !.current_platoon = "member",
                                  !.current_platoon_id = "PL1"], "PLATOON_MEMBER")
    /\ vhist' = [at |-> now, heard |-> FALSE]
    /\ out' = <<>>
    /\ UNCHANGED now
    /\ VRest("join")

\* a step of the consumer's negotiation
VConsumerStep ==
    \E st \in ConsumerStates :
        /\ veh.role = "CONSUMER"
        /\ veh' = [veh EXCEPT !.consumer_state = st]
        /\ out' = <<>>
        /\ UNCHANGED <<now, vhist>>
        /\ VRest("consumer_step")

\* a step of the platoon head's negotiation
VHeadStep ==
    \E st \in PlatoonHeadStates :
        /\ veh.role = "PLATOON_HEAD"
        /\ veh' = [veh EXCEPT !.platoon_head_state = st]
        /\ out' = <<>>
        /\ UNCHANGED <<now, vhist>>
        /\ VRest("head_step")

\* node.shareable_energy() and node.willingness change
VEnergy ==
    \E e \in {-1, 2, 3}, w \in {3, 4} :
        /\ veh' = [veh EXCEPT !.shareable = e, !.willingness = w]
        /\ out' = <<>>
        /\ UNCHANGED <<now, vhist>>
        /\ VRest("energy")

NextV ==
    \/ VAdvanceTime
    \/ VRoleTick
    \/ VCoordinationTick
    \/ VRecvBeacon
    \/ VJoinPlatoon
    \/ VConsumerStep
    \/ VHeadStep
    \/ VEnergy

SpecV == InitV /\ [][NextV]_vars

----------------------------------------------------------------------------
(* SpecO: the neighbour table of one node and its MPR selection *)

\* the neighbour table as HELLOs can have filled it: every neighbour absent,
\* or present with any 2-hop list and score
InitO ==
    /\ InitCore
    /\ platoon = InitPlatoon
    /\ shareable \in ShareableProfiles
    /\ shareable["N1"] = 2
    /\ rreh = InitRreh
    /\ veh = InitVeh
    /\ vhist = [at |-> 0, heard |-> FALSE]
    /\ snapshot \in [ONodes ->
            {[present |-> FALSE, two_hop_neighbors |-> {}, qos |-> 1]} \cup
            [present : {TRUE}, two_hop_neighbors : SUBSET {"S", "A", "X", "Y", "Z"},
             qos : QosVals]]
    /\ mpr_set = {}
    /\ InitZ

\* recalculate_mpr: context.mpr_set becomes what select_mprs returns
ORecalculateMpr ==
    /\ mpr_set' \in SelectMprs(snapshot)
    /\ out' = <<>>
    /\ op' = [name |-> "recalculate_mpr", node |-> "S", msg |-> None]
    /\ UNCHANGED <<now, role, cstate, session, blacklist, ptable,
                   hs, hsProv, resends, blAt, cleared, hvars, pvars,
                   platoon, shareable, rreh, veh, vhist, snapshot, zvars>>

NextO == ORecalculateMpr

SpecO == InitO /\ [][NextO]_vars

----------------------------------------------------------------------------
(* SpecN: one node (C1) with its NeighborTable and its ProviderTable, as   *)
(* time passes, neighbours send HELLOs and the tables are read.            *)
(* SpecM: the same node receiving HELLOs and a provider's PAs handed on by *)
(* its neighbours.                                                         *)

NSelf == "C1"
NNeighbors == {"A", "B"}           \* the neighbours that send HELLOs
NTwoHopLists == {{}, {"S", "X"}}   \* the neighbour lists their HELLOs carry

\* the PAs of provider P1 as a neighbour hands them on
NPAMsgs ==
    {PAMsg("P1", seq, ttl, <<Tlv("PROVIDER_ID", "P1"), Tlv("PREVIOUS_HOP", h)>>, TRUE) :
        seq \in 1..MaxSeqM, ttl \in 0..1, h \in NNeighbors}

InitN ==
    /\ InitCore
    /\ InitY
    /\ shareable["N1"] = 2
    /\ lk = None
    /\ route = None
    /\ wire = None
    /\ nt = InitTable

NRest(name, kind) ==
    /\ op' = [name |-> name, node |-> NSelf, msg |-> kind]
    /\ UNCHANGED <<now, role, cstate, session, blacklist,
                   hs, hsProv, resends, blAt, cleared, hvars,
                   platoon, shareable, rreh, veh, vhist, snapshot, lk, route, wire>>

NClock(limit) ==
    /\ now < limit
    /\ now' = now + 1
    /\ nt' = Older(nt)
    /\ out' = <<>>
    /\ op' = [name |-> "clock", node |-> None, msg |-> None]
    /\ UNCHANGED <<role, cstate, session, blacklist, ptable,
                   hs, hsProv, resends, blAt, cleared, hvars, pvars,
                   platoon, shareable, yvars, lk, route, wire>>

\* handle_hello: update_neighbor, then recalculate_mpr on a fresh snapshot.
\* sel tells whether the sender has this node in its mpr_set; its HELLO
\* carries the neighbour list, the node attributes and the metrics only.
HandleHello(n, two_hop_neighbors, sel) ==
    LET t == UpdateNeighbor(nt, n, two_hop_neighbors, 1)
    IN  /\ nt' = [t EXCEPT !.selected_me = IF sel THEN @ \cup {n} ELSE @ \ {n}]
        /\ mpr_set' \in SelectMprs(GetSnapshot(t))
        /\ out' = <<>>
        /\ UNCHANGED <<ptable, pvars>>

NAdvanceTime ==
    /\ NClock(MaxTimeN)
    /\ now' <= MaxTimeN

\* HELLOs of A, with or without a 2-hop neighbour, and of B
NRecvHello ==
    \E n \in NNeighbors, thl \in NTwoHopLists :
        /\ n = "B" => thl = {}
        /\ HandleHello(n, thl, FALSE)
        /\ NRest("rx", "HELLO")

NPruneStale ==
    /\ nt' = PruneStale(nt)
    /\ out' = <<>>
    /\ NRest("prune_stale", None)
    /\ UNCHANGED <<ptable, pvars, mpr_set>>

\* get_snapshot, and get_one_hop_set and get_two_hop_set alike: what each
\* returns is a function of neighbors, which it leaves as it is
NRead ==
    /\ nt' = RanNone(nt)
    /\ out' = <<>>
    /\ NRest("get_snapshot", None)
    /\ UNCHANGED <<ptable, pvars, mpr_set>>

\* ProviderTable.update_provider
NUpdateProvider ==
    /\ now <= MaxPATime
    /\ UpdateProvider(NSelf, "P1", TRUE)
    /\ nt' = RanNone(nt)
    /\ op' = [name |-> "update_provider", node |-> NSelf, msg |-> None]
    /\ UNCHANGED <<now, role, hs, hsProv, resends, blAt, cleared, hvars, pvars,
                   platoon, shareable, yvars, lk, route, wire>>

\* ProviderTable.get_all_providers: _clean_stale_unsafe, then the entries
NGetAllProviders ==
    /\ ptable' = [ptable EXCEPT ![NSelf] = CleanStale(@)]
    /\ nt' = RanPrune(nt, "providers")
    /\ out' = <<>>
    /\ NRest("get_all_providers", None)
    /\ UNCHANGED <<pvars, mpr_set>>

NextN ==
    \/ NAdvanceTime
    \/ NRecvHello
    \/ NPruneStale
    \/ NRead
    \/ NUpdateProvider
    \/ NGetAllProviders

SpecN == InitN /\ [][NextN]_vars

MAdvanceTime ==
    /\ NClock(MaxTimeM)
    /\ now' <= MaxTimeM

MRecvHello ==
    \E n \in NNeighbors, thl \in NTwoHopLists, sel \in BOOLEAN :
        /\ HandleHello(n, thl, sel)
        /\ NRest("rx", "HELLO")

\* handle_pa, with the update_provider it makes
MRecvPA ==
    \E m \in NPAMsgs :
        /\ HandlePA(NSelf, m)
        /\ paRecv' = [paRecv EXCEPT ![NSelf] = @ \cup {MsgKey(m)}]
        /\ nt' = [RanNone(nt) EXCEPT !.rx = m]
        /\ NRest("rx", "PA")
        /\ UNCHANGED <<mpr_selector_set, mpr_set>>

NextM ==
    \/ MAdvanceTime
    \/ MRecvHello
    \/ MRecvPA

SpecM == InitN /\ [][NextM]_vars

----------------------------------------------------------------------------
(* SpecL: three threads on one RWLock, each taking and giving back the     *)
(* read or the write side in any order and interleaving.                   *)

LRest(name, t) ==
    /\ op' = [name |-> name, node |-> t, msg |-> None]
    /\ UNCHANGED <<now, role, cstate, session, blacklist, ptable, out,
                   hs, hsProv, resends, blAt, cleared, hvars, pvars,
                   platoon, shareable, yvars, route, wire, nt>>

\* history: two readers have been inside together
LShared(l) == [l EXCEPT !.shared = @ \/ Cardinality(Reading(l)) >= 2]

LAcquireRead ==
    \E t \in LThreads :
        /\ lk.pc[t] \in {"idle", "ar_lock", "ar_inc", "ar_unlock"}
        /\ lk.pc[t] = "ar_lock" => lk.mutex = None
        /\ lk' = LShared(AcquireRead(lk, t))
        /\ LRest("acquire_read", t)

LReleaseRead ==
    \E t \in LThreads :
        /\ lk.pc[t] \in {"reading", "rr_lock", "rr_dec", "rr_unlock"}
        /\ lk.pc[t] = "rr_lock" => lk.mutex = None
        /\ lk' = ReleaseRead(lk, t)
        /\ LRest("release_read", t)

LAcquireWrite ==
    \E t \in LThreads :
        /\ lk.pc[t] \in {"idle", "aw_lock", "aw_check"}
        /\ lk.pc[t] = "aw_lock" => lk.mutex = None
        /\ lk' = AcquireWrite(lk, t)
        /\ LRest("acquire_write", t)

LReleaseWrite ==
    \E t \in LThreads :
        /\ lk.pc[t] = "writing"
        /\ lk' = ReleaseWrite(lk, t)
        /\ LRest("release_write", t)

NextL == LAcquireRead \/ LReleaseRead \/ LAcquireWrite \/ LReleaseWrite

InitL ==
    /\ InitCore
    /\ InitY
    /\ shareable["N1"] = 2
    /\ lk = InitLock
    /\ route = None
    /\ wire = None
    /\ nt = None

SpecL == InitL /\ [][NextL]_vars

\* SpecLF: the same threads under a fair scheduler.  A thread that is inside
\* one of the four methods, or holds either side of the lock, takes its next
\* step whenever that step is possible again and again: every holder gives
\* the lock back, and the mutex is handed to each thread that asks for it.
\* Only beginning a new operation is left to the thread.
LProgress(t) == NextL /\ op'.node = t /\ lk.pc[t] # "idle"

FairL == \A t \in LThreads : SF_vars(LProgress(t))

SpecLF == InitL /\ [][NextL]_vars /\ FairL

----------------------------------------------------------------------------
(* SpecR: one edge graph over three members, of any efficiencies and       *)
(* costs, and one call of either search on it, with any arguments.         *)

InitR ==
    /\ InitCore
    /\ InitY
    /\ shareable["N1"] = 2
    /\ lk = None
    /\ wire = None
    /\ nt = None
    /\ route \in [edge_graph : EdgeGraphs, call : {"none"}, source_ids : {{}},
                  target_id : {None}, result : {NoPath}]

RRest(name) ==
    /\ op' = [name |-> name, node |-> None, msg |-> None]
    /\ UNCHANGED <<now, role, cstate, session, blacklist, ptable, out,
                   hs, hsProv, resends, blAt, cleared, hvars, pvars,
                   platoon, shareable, yvars, lk, wire, nt>>

RDijkstraToSources ==
    \E t \in RNodes, srcs \in SUBSET RNodes :
        /\ route.call = "none"
        /\ route' = [route EXCEPT !.call = "_dijkstra_to_sources",
                                  !.source_ids = srcs, !.target_id = t,
                                  !.result = DijkstraToSources(route.edge_graph, t, srcs)]
        /\ RRest("_dijkstra_to_sources")

RFindBestEnergyPath ==
    \E src \in RNodes, t \in RNodes :
        /\ route.call = "none"
        /\ route' = [route EXCEPT !.call = "find_best_energy_path",
                                  !.source_ids = {src}, !.target_id = t,
                                  !.result = FindBestEnergyPath(route.edge_graph, src, t)]
        /\ RRest("find_best_energy_path")

NextR == RDijkstraToSources \/ RFindBestEnergyPath

SpecR == InitR /\ [][NextR]_vars

----------------------------------------------------------------------------
(* SpecW: one message is built and encoded; the buffer reaches a receiver  *)
(* as it was sent, cut short, or with one byte changed, and is decoded.    *)

InitW ==
    /\ InitCore
    /\ InitY
    /\ shareable["N1"] = 2
    /\ lk = None
    /\ route = None
    /\ nt = None
    /\ wire \in [stage : {"built"}, msg : WireMessages, buf : {<<>>},
                 tampered : {FALSE}, decoded : {NotDecoded}]

WRest(name) ==
    /\ op' = [name |-> name, node |-> None, msg |-> None]
    /\ UNCHANGED <<now, role, cstate, session, blacklist, ptable, out,
                   hs, hsProv, resends, blAt, cleared, hvars, pvars,
                   platoon, shareable, yvars, lk, route, nt>>

WEncode ==
    /\ wire.stage = "built"
    /\ wire' = [wire EXCEPT !.stage = "encoded", !.msg = EncodedMessage(wire.msg),
                            !.buf = Encode(wire.msg)]
    /\ WRest("encode")

\* the receiver gets only the first k bytes
WTruncate ==
    \E k \in {0, 14, 15, 16, 18} :
        /\ wire.stage = "encoded" /\ ~wire.tampered
        /\ k < Len(wire.buf)
        /\ wire' = [wire EXCEPT !.tampered = TRUE, !.buf = Slice(wire.buf, 0, k)]
        /\ WRest("truncate")

\* the receiver gets the buffer with the low byte of payload_len, or the
\* length byte of the first TLV, changed
WSetByte ==
    \E i \in {15, 17}, v \in {0, 1, 3, 255} :
        /\ wire.stage = "encoded" /\ ~wire.tampered
        /\ i <= Len(wire.buf)
        /\ wire.buf[i] # v
        /\ wire' = [wire EXCEPT !.tampered = TRUE, !.buf[i] = v]
        /\ WRest("set_byte")

WDecode ==
    /\ wire.stage = "encoded"
    /\ wire' = [wire EXCEPT !.stage = "decoded", !.decoded = Decode(wire.buf)]
    /\ WRest("decode")

NextW == WEncode \/ WTruncate \/ WSetByte \/ WDecode

SpecW == InitW /\ [][NextW]_vars

----------------------------------------------------------------------------
(* SpecPX: the vehicle N1 becomes platoon head, vehicles are added to its  *)
(* platoon, and its role manager takes it out of the head role, with       *)
(* whatever shareable energy it has by then.                               *)

PXRest(name, n) ==
    /\ op' = [name |-> name, node |-> n, msg |-> None]
    /\ out' = <<>>
    /\ UNCHANGED <<now, role, cstate, session, blacklist, ptable,
                   hs, hsProv, resends, blAt, cleared, hvars, pvars,
                   rreh, vhist, snapshot, mpr_set, zvars>>

\* apply_role(PLATOON_HEAD) on a node that is not head
PXBecomeHead ==
    /\ veh.role # "PLATOON_HEAD"
    /\ veh' = ApplyRole([veh EXCEPT !.shareable = shareable[FirstHead]], "PLATOON_HEAD", FALSE)
    /\ platoon' = InitPlatoon
    /\ UNCHANGED shareable
    /\ PXRest("become_head", FirstHead)

PXAddNode ==
    \E n \in PNodes :
        /\ veh.role = "PLATOON_HEAD"
        /\ platoon' = AddNode(platoon, n)
        /\ UNCHANGED <<veh, shareable>>
        /\ PXRest("add_node", n)

\* apply_role(new_role) on the head, its energy having become e
PXLeaveHead ==
    \E e \in {0 - 1, 0, 1}, new_role \in {"CONSUMER", "PLATOON_MEMBER"} :
        /\ veh.role = "PLATOON_HEAD"
        /\ shareable' = [shareable EXCEPT ![FirstHead] = e]
        /\ platoon' = PhExitPlatoon(platoon, FirstHead, shareable')
        /\ veh' = ApplyRole([veh EXCEPT !.shareable = e], new_role,
                            FindBestHandoffCandidate(platoon, shareable') # None)
        /\ PXRest("ph_exit", FirstHead)

NextPX == PXBecomeHead \/ PXAddNode \/ PXLeaveHead

SpecPX == InitPL /\ [][NextPX]_vars

----------------------------------------------------------------------------
(* Step classifiers, read from the history variable op *)

TickOf(c) == op'.name = "tick" /\ op'.node = c
RxOf(c) == op'.name = "rx" /\ op'.node = c
InBackoff(c) ==
    /\ role[c] = "CONSUMER"
    /\ cstate[c] \in WaitStates
    /\ session[c].next_retry_time # NoTime

\* the message a retry resends in the consumer's current waiting state
PendingMsg(c) == IF cstate[c] = "WAIT_ACCEPT" THEN JoinOfferMsg(c) ELSE AckMsg(c)

\* a step that handles a reply of the session's provider in the state that
\* waits for it
TargetedReply(c) ==
    /\ RxOf(c)
    /\ op'.msg.provider_id = session[c].provider_id
    /\ \/ op'.msg.type = "JOIN_ACCEPT" /\ cstate[c] = "WAIT_ACCEPT"
       \/ op'.msg.type = "ACKACK" /\ cstate[c] = "WAIT_ACKACK"

----------------------------------------------------------------------------
(* Claims on the consumer handshake (SpecC) *)

\* C1: a consumer is in ALLOCATED only if, within its current session and in
\* this order, it sent a JOIN_OFFER to provider X, received a JOIN_ACCEPT
\* with provider_id X while in WAIT_ACCEPT, sent an ACK, and received an
\* ACKACK with provider_id X while in WAIT_ACKACK (hs = 4 records exactly
\* that sequence, hsProv records X).
C1_AllocatedOnlyAfterHandshake ==
    \A c \in Consumers :
        (role[c] = "CONSUMER" /\ cstate[c] = "ALLOCATED")
            => (hs[c] = 4 /\ hsProv[c] = session[c].provider_id /\ hsProv[c] # None)

C1_Witness ==
    \E c \in Consumers :
        /\ cstate[c] = "ALLOCATED"
        /\ hs[c] = 4
        /\ op.name = "rx" /\ op.msg.type = "ACKACK"

\* C3: a step that handles a JOIN_ACCEPT or ACKACK whose provider_id differs
\* from the provider of the consumer's session leaves the consumer's state
\* and session unchanged and emits no packet.
C3_WrongProviderIgnored ==
    [][\A c \in Consumers :
          (RxOf(c) /\ op'.msg.provider_id # session[c].provider_id)
              => (cstate'[c] = cstate[c] /\ session'[c] = session[c] /\ out' = <<>>)]_vars

C3_Witness ==
    /\ op.name = "rx"
    /\ op.msg.type = "JOIN_ACCEPT"
    /\ cstate[op.node] = "WAIT_ACCEPT"
    /\ session[op.node].provider_id # None
    /\ op.msg.provider_id # session[op.node].provider_id
    /\ out = <<>>

\* C4: the retry counter of a session never exceeds RETRY_MAX_RETRIES (3),
\* and the retransmissions made in a session (JOIN_OFFER and ACK resends
\* together) never exceed it either.
C4_RetriesBounded ==
    \A c \in Consumers :
        /\ session[c].retries <= RETRY_MAX_RETRIES
        /\ resends[c] <= RETRY_MAX_RETRIES

C4_Witness ==
    \E c \in Consumers :
        /\ cstate[c] \in WaitStates
        /\ session[c].retries = RETRY_MAX_RETRIES
        /\ resends[c] = RETRY_MAX_RETRIES

C6_BlacklistAfterMaxRetries ==
    [][\A c \in Consumers :
          (/\ TickOf(c)
           /\ role[c] = "CONSUMER"
           /\ cstate[c] \in WaitStates
           /\ session[c].next_retry_time = NoTime
           /\ now > session[c].timeout_time
           /\ session[c].retries >= RETRY_MAX_RETRIES)
              => /\ session[c].provider_id \in Providers
                 /\ blacklist'[c][session[c].provider_id] = now + BLACKLIST_DURATION
                 /\ ptable'[c][session[c].provider_id] = NoEntry
                 /\ session'[c] = EmptySession
                 /\ session'[c].provider_id = None
                 /\ session'[c].retries = 0
                 /\ session'[c].next_retry_time = NoTime
                 /\ cstate'[c] = "DISCOVER"]_vars

C6_Witness ==
    \E c \in Consumers, p \in Providers :
        /\ op.name = "tick" /\ op.node = c
        /\ cstate[c] = "DISCOVER"
        /\ blacklist[c][p] = now + BLACKLIST_DURATION
        /\ blAt[c][p] = now
        /\ ptable[c][p] = NoEntry
        /\ session[c] = EmptySession

----------------------------------------------------------------------------
(* Claims on the blacklist (SpecBL) *)

\* a tick of c that sends a JOIN_OFFER in a session that targets p
OfferTo(c, p) ==
    /\ TickOf(c)
    /\ Sends(out', "JOIN_OFFER")
    /\ session'[c].provider_id = p

\* a tick of c in DISCOVER or EVALUATE that finds no provider to target
NothingSelected(c) ==
    /\ TickOf(c)
    /\ role[c] = "CONSUMER"
    /\ cstate[c] \in {"DISCOVER", "EVALUATE"}
    /\ cstate'[c] = "DISCOVER"

\* providers the ProviderTable offers to the selection at this instant
Offered(c) == WithCapacity(CleanStale(ptable[c]))

\* p was blacklisted at blAt[c][p] and the blacklist duration has not
\* elapsed since
InWindow(c, p) ==
    /\ blAt[c][p] # NoTime
    /\ now < blAt[c][p] + BLACKLIST_DURATION

\* C7 as stated: a provider blacklisted at t is the target of no JOIN_OFFER
\* sent in [t, t + 30 s), and from t + 30 s on it is eligible: a tick that
\* finds nothing to select has been offered only providers inside their
\* window.
C7_AsStated ==
    [][\A c \in Consumers :
          /\ \A p \in Providers : OfferTo(c, p) => ~InWindow(c, p)
          /\ NothingSelected(c) => \A p \in Offered(c) : InWindow(c, p)]_vars

\* C7, amended: a provider blacklisted at t is the target of no JOIN_OFFER
\* sent in [t, t + 30 s) unless finish_charging has cleared the blacklist
\* since t; from t + 30 s on (and from such a clearing on) it is eligible:
\* a tick that finds nothing to select has been offered only providers that
\* are inside their window and not cleared.
C7_BlacklistWindow ==
    [][\A c \in Consumers :
          /\ \A p \in Providers : OfferTo(c, p) => (~InWindow(c, p) \/ cleared[c][p])
          /\ NothingSelected(c) =>
                \A p \in Offered(c) : (InWindow(c, p) /\ ~cleared[c][p])]_vars

C7_Witness ==
    \E c \in Consumers, p \in Providers :
        /\ op.name = "tick" /\ op.node = c
        /\ cstate[c] = "WAIT_ACCEPT"
        /\ Sends(out, "JOIN_OFFER")
        /\ session[c].provider_id = p
        /\ ~cleared[c][p]
        /\ blAt[c][p] # NoTime
        /\ now = blAt[c][p] + BLACKLIST_DURATION

----------------------------------------------------------------------------
(* Claims on the handshake between consumers and a platoon head (SpecHS) *)

\* C2: whenever a consumer c is in ALLOCATED and the provider of its
\* session is the platoon head p, p has answered an ACK of c with its
\* ACKACK and holds c in platoon_members.
C2_AllocatedImpliesAdmitted ==
    \A c \in Consumers, p \in PlatoonProviders :
        (role[c] = "CONSUMER" /\ cstate[c] = "ALLOCATED" /\ session[c].provider_id = p)
            => (c \in ackFor[p] /\ InSeq(c, ph[p].platoon_members))

----------------------------------------------------------------------------
(* Claims on provider announcements (SpecPA) *)

\* the PREVIOUS_HOP TLVs of a packet
PrevHopTlvs(m) == SelectSeq(m.tlvs, LAMBDA x : x.type = "PREVIOUS_HOP")

\* C8: once a node has received a PA with a given (sender_id, seq_num)
\* pair, every further PA with that pair leaves its ProviderTable unchanged
\* and is not re-broadcast; so at most one PA per pair, the first, updates
\* the table or is forwarded.
C8_DuplicateDropped ==
    [][\A n \in Nodes :
          (RxOf(n) /\ op'.msg.type = "PA" /\ MsgKey(op'.msg) \in paRecv[n])
              => (ptable' = ptable /\ out' = <<>>)]_vars

C8_Witness ==
    /\ op.name = "rx"
    /\ op.msg.type = "PA"
    /\ op.msg.ttl > 0
    /\ GetTlvValue(op.msg, "PROVIDER_ID") # None
    /\ PreviousHopOf(op.msg) \in mpr_selector_set[op.node]
    /\ ptable[op.node][GetTlvValue(op.msg, "PROVIDER_ID")] # NewEntry(op.msg.cap)
    /\ out = <<>>

\* C9: a node re-broadcasts a received PA only if the PA's TTL is greater
\* than 0 and its previous hop (the first PREVIOUS_HOP TLV, or sender_id
\* when there is none) is in the node's mpr_selector_set.
C9_ForwardOnlyForSelectors ==
    [][\A n \in Nodes :
          (RxOf(n) /\ op'.msg.type = "PA" /\ out' # <<>>)
              => /\ op'.msg.ttl > 0
                 /\ (IF PrevHopTlvs(op'.msg) # <<>>
                     THEN PrevHopTlvs(op'.msg)[1].value ELSE op'.msg.sender_id)
                        \in mpr_selector_set[n]]_vars

C9_Witness ==
    /\ op.name = "rx"
    /\ op.msg.type = "PA"
    /\ PrevHopTlvs(op.msg) # <<>>
    /\ op.msg.sender_id \notin mpr_selector_set[op.node]
    /\ out # <<>>

\* C10: the PA a forwarder re-broadcasts has the received TTL minus one,
\* exactly one PREVIOUS_HOP TLV, whose value is the forwarder's node_id, and
\* the sender_id and seq_num of the received PA.
C10_ForwardedPacket ==
    [][\A n \in Nodes :
          (RxOf(n) /\ op'.msg.type = "PA" /\ out' # <<>>)
              => /\ Len(out') = 1
                 /\ out'[1].type = "PA"
                 /\ out'[1].ttl = op'.msg.ttl - 1
                 /\ out'[1].ttl >= 0
                 /\ PrevHopTlvs(out'[1]) = <<Tlv("PREVIOUS_HOP", n)>>
                 /\ out'[1].sender_id = op'.msg.sender_id
                 /\ out'[1].seq_num = op'.msg.seq_num]_vars

C10_Witness ==
    /\ op.name = "rx"
    /\ op.msg.type = "PA"
    /\ Len(PrevHopTlvs(op.msg)) = MaxPrevHops
    /\ Len(out) = 1
    /\ PrevHopTlvs(out[1]) = <<Tlv("PREVIOUS_HOP", op.node)>>
    /\ out[1].ttl = op.msg.ttl - 1

\* C11: the seen-message map of a node never holds more entries than the
\* cap (MAX_SEEN_MESSAGES, here at the scale of the model: SeenCap).
\* handle_pa inserts every new key and neither it nor any other code reads
\* the cap or removes a key.
C11_SeenMessagesCapped ==
    \A n \in Nodes : Cardinality(seen_messages[n]) <= SeenCap

----------------------------------------------------------------------------
(* Claims on the context's clock (SpecT) *)

\* C12: over any sequence of update_time(ts) calls current_time never
\* decreases: a call with ts below current_time raises an error and leaves
\* current_time unchanged, a call with ts at or above it succeeds and sets
\* current_time to ts.
C12_TimeMonotonic ==
    [][op'.name \in {"update_time", "ValueError"} =>
          /\ now' >= now
          /\ op'.msg < now => (op'.name = "ValueError" /\ now' = now)
          /\ op'.msg >= now => (op'.name = "update_time" /\ now' = op'.msg)]_vars

C12_Witness ==
    /\ op.name = "ValueError"
    /\ op.msg < now
    /\ now > 0

----------------------------------------------------------------------------
(* Claims on the Platoon object (SpecPL) *)

\* C13: after any sequence of add_node, remove_node and set_head the
\* platoon's node_number is the length of its member list, no member
\* appears twice, there are at most 6 members, and a platoon that has
\* members has its head among them, at index 0.
C13_PlatoonInvariants ==
    /\ platoon.node_number = Len(platoon.nodes)
    /\ \A i, j \in 1..Len(platoon.nodes) : platoon.nodes[i] = platoon.nodes[j] => i = j
    /\ Len(platoon.nodes) <= MAX_NODES
    /\ platoon.nodes # <<>> =>
          (InSeq(platoon.head_node, platoon.nodes) /\ platoon.nodes[1] = platoon.head_node)

\* C14: a remove_node of the head either hands the platoon to the remaining
\* member with the highest shareable energy (new head at index 0, old head
\* no longer a member) when a handoff candidate exists, or else leaves the
\* platoon with no head and no members.
C14_HeadRemovalOutcome ==
    [][(op'.name = "remove_node" /\ platoon.head_node # None
            /\ op'.node = platoon.head_node) =>
          LET old    == platoon.head_node
              others == {platoon.nodes[i] : i \in 1..Len(platoon.nodes)} \ {old}
              cands  == {n \in others : shareable[n] > 0}
          IN  IF cands # {}
              THEN /\ platoon'.head_node \in cands
                   /\ \A n \in others : shareable[n] <= shareable[platoon'.head_node]
                   /\ platoon'.nodes[1] = platoon'.head_node
                   /\ ~InSeq(old, platoon'.nodes)
              ELSE /\ platoon'.head_node = None
                   /\ platoon'.nodes = <<>>]_vars

----------------------------------------------------------------------------
(* Claims on the platoon head (SpecPH) *)

\* C15: the members a platoon head has admitted (the head included) are
\* never more than 6.
C15_PlatoonSizeBounded ==
    \A p \in PlatoonProviders : Len(ph[p].platoon_members) <= MAX_NODES

\* C17: the pending-offer map of a platoon head never holds more than
\* MAX_PENDING (5) entries nor two entries of one consumer_id, and a
\* JOIN_OFFER that arrives when 5 offers are pending, or from a consumer
\* that is already pending, leaves the map unchanged.
C17_PendingBounded ==
    [][\A p \in PlatoonProviders :
          LET pend == ph[p].pending_members
              new  == ph'[p].pending_members
          IN  /\ Len(new) <= MAX_PENDING
              /\ \A i, j \in 1..Len(new) : new[i] = new[j] => i = j
              /\ (RxOf(p) /\ op'.msg.type = "JOIN_OFFER"
                    /\ (Len(pend) >= MAX_PENDING \/ InSeq(ConsumerIdOf(op'.msg), pend)))
                    => new = pend]_vars

C17_Witness ==
    /\ op.name = "rx"
    /\ op.msg.type = "JOIN_OFFER"
    /\ Len(ph[op.node].pending_members) = MAX_PENDING
    /\ ~InSeq(op.msg.consumer_id, ph[op.node].pending_members)
    /\ ph[op.node].state \in {"WAIT_OFFERS", "BEACON", "COORDINATE"}

\* C16: an RREH never has more active charging sessions than max_sessions
\* (4), whatever the order of JOIN_OFFERs, ACKs, ACK timeouts and session
\* completions.
C16_ActiveSessionsBounded ==
    Cardinality(rreh.active_sessions) <= RREH_MAX_SESSIONS

\* the hub is full, a consumer is queued, and the hub's tick has just left
\* the queue alone instead of starting a fifth negotiation
C16_Witness ==
    /\ Cardinality(rreh.active_sessions) = RREH_MAX_SESSIONS
    /\ rreh.consumer_queue # <<>>
    /\ op.name = "rreh_tick"
    /\ rreh.state = "CHARGE_SESSION"

\* C18: the role manager's tick never changes the role of a node that is a
\* consumer in WAIT_ACCEPT, WAIT_ACKACK, ALLOCATED, TRAVEL or CHARGE, or a
\* platoon head in WAIT_ACK, SEND_ACKACK or COORDINATE.
C18_NoRoleChangeInSession ==
    [][(op'.name = "role_tick"
         /\ \/ /\ veh.role = "CONSUMER"
               /\ veh.consumer_state \in
                    {"WAIT_ACCEPT", "WAIT_ACKACK", "ALLOCATED", "TRAVEL", "CHARGE"}
            \/ /\ veh.role = "PLATOON_HEAD"
               /\ veh.platoon_head_state \in {"WAIT_ACK", "SEND_ACKACK", "COORDINATE"})
        => veh'.role = veh.role]_vars

\* the tick has just run on a platoon head in COORDINATE whose energy no
\* longer qualifies it, and left it a platoon head
C18_Witness ==
    /\ op.name = "role_tick"
    /\ veh.role = "PLATOON_HEAD"
    /\ veh.platoon_head_state = "COORDINATE"
    /\ EvaluateRole(veh) = "CONSUMER"

\* C19: a platoon member whose most recent PLATOON_BEACON (or whose joining,
\* if it has received none) lies more than BEACON_TIMEOUT (5 s) in the past
\* leaves the platoon and is a CONSUMER again after its next tick.
C19_BeaconTimeoutLeaves ==
    [][(op'.name = "l4_tick"
         /\ veh.role = "PLATOON_MEMBER"
         /\ now - (IF vhist.heard THEN veh.last_beacon_time ELSE vhist.at) > BEACON_TIMEOUT)
        => (veh'.role = "CONSUMER" /\ veh'.current_platoon = None)]_vars

\* C20: after every MPR selection, every node of the strict 2-hop set N2
\* is in the 2-hop list of at least one neighbour of the returned MPR set.
C20_MprsCoverN2 ==
    op.name = "recalculate_mpr" =>
    \A x \in OlsrN2(snapshot) : \E m \in mpr_set : x \in snapshot[m].two_hop_neighbors

\* a selection in which no neighbour is essential and the greedy loop chose
\* two MPRs to cover N2
C20_Witness ==
    /\ op.name = "recalculate_mpr"
    /\ Cardinality(OlsrN2(snapshot)) >= 2
    /\ EssentialMprs(snapshot) = {}
    /\ Cardinality(mpr_set) = 2

----------------------------------------------------------------------------
(* Claims on the readers-writer lock (SpecL) *)

\* C21: a writer is inside its critical section only while no reader and
\* no other writer is inside.
C21_WriterExcludes ==
    \A w \in Writing(lk) :
        /\ Reading(lk) = {}
        /\ Writing(lk) = {w}
        /\ lk.mutex = w

\* a writer is inside with the other two threads blocked at the mutex, after
\* two readers have been inside together
C21_Witness ==
    /\ Writing(lk) # {}
    /\ lk.shared
    /\ \E r \in LThreads : lk.pc[r] = "ar_lock"
    /\ \E x \in LThreads : lk.pc[x] = "aw_lock"

----------------------------------------------------------------------------
(* Claims on the energy routing (SpecR) *)

\* the edges a path walks, from its first node to its last
PathEdges(p) == {<<p[i], p[i + 1]>> : i \in 1..(Len(p) - 1)}

\* the product of the transfer efficiencies along a path, as a fraction
RECURSIVE ProductAlong(_, _)
ProductAlong(g, p) ==
    IF Len(p) < 2 THEN [n |-> 1, d |-> 1]
    ELSE LET rest == ProductAlong(g, Tail(p))
         IN  [n |-> g[<<p[1], p[2]>>].transfer_efficiency * rest.n, d |-> 10 * rest.d]

\* C22: a path returned by either search leads from a source to the target
\* over usable edges only, and what is reported with it is the product of
\* the edges' transfer efficiencies (times the source's shareable energy,
\* for the deliverable energy of _dijkstra_to_sources).
C22_PathUsableAndEfficiency ==
    (route.call # "none" /\ route.result.path # <<>>) =>
        LET p == route.result.path
            prod == ProductAlong(route.edge_graph, p)
            factor == IF route.call = "_dijkstra_to_sources" THEN RShareable[p[1]] ELSE 1
        IN  /\ p[1] \in route.source_ids
            /\ p[Len(p)] = route.target_id
            /\ \A k \in PathEdges(p) :
                  route.edge_graph[k].transfer_efficiency >= EDGE_MIN_EFFICIENCY
            /\ route.result.efficiency.n * prod.d = factor * prod.n * route.result.efficiency.d

\* a path over two edges was returned where the direct edge is not usable
C22_Witness ==
    /\ route.call = "_dijkstra_to_sources"
    /\ Len(route.result.path) = 3
    /\ route.edge_graph[<<route.result.path[1], route.result.path[3]>>].transfer_efficiency = 0
    /\ route.result.efficiency.n = 15

----------------------------------------------------------------------------
(* Claims on the wire codec (SpecW) *)

\* a message whose header fields have their wire widths (sender_id its 6
\* bytes) and whose TLV values have at most 255 bytes
WellFormed(m) ==
    /\ m.header.msg_type \in 0..65535
    /\ m.header.ttl \in 0..255
    /\ m.header.seq_num >= 0
    /\ Len(m.header.sender_id) = 6
    /\ m.header.payload_len \in 0..65535
    /\ \A i \in 1..Len(m.tlvs) : m.tlvs[i].type \in 0..255 /\ Len(m.tlvs[i].value) <= 255

\* C23: decoding the encoding of a well-formed message gives back its header
\* fields and its TLVs, types and values, in order, unknown types included.
C23_RoundTrip ==
    (wire.stage = "decoded" /\ ~wire.tampered /\ WellFormed(wire.msg)) =>
        /\ wire.decoded.error = "none"
        /\ wire.decoded.header = wire.msg.header
        /\ wire.decoded.tlvs = wire.msg.tlvs

\* a message of unknown type with a TLV of unknown type and a 255-byte TLV
\* has made the round trip
C23_Witness ==
    /\ wire.stage = "decoded" /\ ~wire.tampered /\ WellFormed(wire.msg)
    /\ wire.msg.header.msg_type = 300
    /\ wire.msg.header.seq_num = 2147483647
    /\ Len(wire.msg.tlvs) = 2
    /\ wire.msg.tlvs[1].type = 200
    /\ wire.msg.tlvs[2].length = 255
    /\ wire.decoded.tlvs[1].type = 200

\* a TLV of the payload declares more bytes than the payload has left
RECURSIVE TlvOverrun(_, _)
TlvOverrun(payload, offset) ==
    /\ offset + 2 <= Len(payload)
    /\ \/ offset + 2 + payload[offset + 2] > Len(payload)
       \/ TlvOverrun(payload, offset + 2 + payload[offset + 2])

\* C24: decode raises when the buffer is shorter than the header, when
\* payload_len exceeds the bytes after the header, and when a TLV declares
\* more bytes than the payload has left.
C24_MalformedRaises ==
    wire.stage = "decoded" =>
        LET declared == wire.buf[14] * 256 + wire.buf[15]
        IN  (\/ Len(wire.buf) < HEADER_SIZE
             \/ declared > Len(wire.buf) - HEADER_SIZE
             \/ TlvOverrun(Slice(wire.buf, HEADER_SIZE, HEADER_SIZE + declared), 0))
            => wire.decoded.error # "none"

----------------------------------------------------------------------------
(* Claims on the platoon head's admission of a consumer (SpecPH) *)

\* C25: a head in WAIT_ACK that receives the ACK of its current target sends
\* ACKACK and the consumer becomes a member of the platoon (member list and
\* member_positions), so available_slots is one lower afterwards.
C25_AckAdmitsMember ==
    [][\A p \in PlatoonProviders :
          (RxOf(p) /\ op'.msg.type = "ACK" /\ ph[p].state = "WAIT_ACK"
                /\ ConsumerIdOf(op'.msg) = ph[p].current_target)
            => /\ Sends(out', "ACKACK")
               /\ InSeq(ConsumerIdOf(op'.msg), ph'[p].platoon.nodes)
               /\ InSeq(ConsumerIdOf(op'.msg), ph'[p].platoon.member_positions)
               /\ AvailableSlots(ph'[p]) = AvailableSlots(ph[p]) - 1]_vars

\* C26: JOIN_ACCEPT sets the deadline ACK_TIMEOUT ahead; the first tick
\* after it that finds the head still in WAIT_ACK removes the target's
\* pending entry, clears the target and goes to EVALUATE_OFFERS when other
\* offers are pending, else to COORDINATE, and admits nobody; a tick up to
\* the deadline changes nothing.
C26_AckTimeout ==
    [][\A p \in PlatoonProviders :
          /\ (op'.node = p /\ Sends(out', "JOIN_ACCEPT"))
                => /\ ph'[p].state = "WAIT_ACK"
                   /\ ph'[p].current_target_timeout = now + ACK_TIMEOUT
          /\ (TickOf(p) /\ role[p] = "PLATOON_HEAD" /\ ph[p].state = "WAIT_ACK")
                => IF now > ph[p].current_target_timeout
                   THEN LET rest == Without(ph[p].pending_members, ph[p].current_target)
                        IN  /\ ph'[p].pending_members = rest
                            /\ ph'[p].current_target = None
                            /\ ph'[p].state = IF rest # <<>> THEN "EVALUATE_OFFERS"
                                              ELSE "COORDINATE"
                            /\ ph'[p].platoon_members = ph[p].platoon_members
                            /\ ph'[p].platoon = ph[p].platoon
                            /\ out' = <<>>
                   ELSE ph'[p] = ph[p]]_vars

\* a tick one instant after the deadline has dropped a target that never
\* sent its ACK, and other offers are still pending
C26_Witness ==
    \E p \in PlatoonProviders :
        /\ op.name = "tick" /\ op.node = p
        /\ ph[p].state = "EVALUATE_OFFERS"
        /\ ph[p].current_target = None
        /\ ph[p].current_target_timeout > 0
        /\ now = ph[p].current_target_timeout + 1
        /\ ackFor[p] = {}
        /\ ph[p].pending_members # <<>>
        /\ ph[p].platoon_members = <<p>>

\* C27: a tick of a head in COORDINATE that has a platoon evaluates
\* should_handoff() and enters HANDOFF exactly when it is true; otherwise
\* the tick leaves the head in COORDINATE.
C27_HandoffWhenShouldHandoff ==
    [][\A p \in PlatoonProviders :
          (op'.node = p /\ op'.name \in {"tick", "tick_error"}
                /\ role[p] = "PLATOON_HEAD" /\ ph[p].state = "COORDINATE")
            => /\ op'.name = "tick"
               /\ ph'[p].state = IF ShouldHandoff(p) THEN "HANDOFF" ELSE "COORDINATE"]_vars

----------------------------------------------------------------------------
(* Claims on leaving the head role (SpecPX) *)

\* C28: when the role manager takes a node out of PLATOON_HEAD and its
\* platoon has a handoff candidate, the member with the highest shareable
\* energy becomes head and the old head is no longer a member; with no
\* candidate the platoon has no members left and the context no platoon.
C28_HeadExitOutcome ==
    [][op'.name = "ph_exit" =>
          LET old    == op'.node
              others == {platoon.nodes[i] : i \in 1..Len(platoon.nodes)} \ {old}
              cands  == {n \in others : shareable'[n] > 0}
          IN  IF cands # {}
              THEN /\ platoon'.head_node \in cands
                   /\ \A n \in others : shareable'[n] <= shareable'[platoon'.head_node]
                   /\ ~InSeq(old, platoon'.nodes)
              ELSE /\ platoon'.nodes = <<>>
                   /\ veh'.current_platoon = None]_vars

----------------------------------------------------------------------------
(* Claims on the RREH's queue (SpecRH, SpecRO) *)

\* C29: the queue is served first in, first out: offers join at the tail,
\* the entries that stay keep their order, and JOIN_ACCEPT goes to the
\* consumer at the head of the queue, which the hub then waits for.
C29_QueueFifo ==
    [][LET q  == rreh.consumer_queue
           q2 == rreh'.consumer_queue
       IN  /\ SelectSeq(q2, LAMBDA c : InSeq(c, q)) = SelectSeq(q, LAMBDA c : InSeq(c, q2))
           /\ \A i, j \in 1..Len(q2) : (i < j /\ InSeq(q2[j], q)) => InSeq(q2[i], q)
           /\ (op'.node = Hub /\ Sends(out', "JOIN_ACCEPT"))
                 => /\ q # <<>>
                    /\ rreh'.current_target = Head(q)
                    /\ rreh'.state = "WAIT_ACK"
           /\ rreh'.state = "WAIT_ACK" => rreh'.current_target = Head(q2)]_vars

\* JOIN_ACCEPT has gone to the head of a queue of two, the consumer that
\* offered first having timed out and offered again
C29_Witness ==
    /\ op.name = "rreh_tick"
    /\ out # <<>> /\ out[1].type = "JOIN_ACCEPT"
    /\ Len(rreh.consumer_queue) >= 2
    /\ rreh.current_target = rreh.consumer_queue[1]
    /\ HOrder[rreh.consumer_queue[1]] > HOrder[rreh.consumer_queue[2]]

\* C30: in any state, a JOIN_OFFER that arrives when the hub is full or its
\* operational state is limited or offline is rejected: the queue stays as
\* it is.
C30_OfferRejectedWhenClosed ==
    [][(op'.name = "rx" /\ op'.node = Hub /\ op'.msg.type = "JOIN_OFFER"
            /\ \/ Cardinality(rreh.active_sessions) >= RREH_MAX_SESSIONS
               \/ rreh.operational_state \in {"limited", "offline"})
          => rreh'.consumer_queue = rreh.consumer_queue]_vars

----------------------------------------------------------------------------
(* Claims on the RREH's sessions (SpecRH) *)

\* C31: an RREH in WAIT_ACK that receives the ACK of its current target
\* sends ACKACK, moves the consumer from the queue to active_sessions and
\* emits an updated GRID_STATUS, all in handling that ACK.
C31_AckStartsSession ==
    [][(op'.name = "rx" /\ op'.node = Hub /\ op'.msg.type = "ACK"
            /\ rreh.state = "WAIT_ACK"
            /\ ConsumerIdOf(op'.msg) = rreh.current_target)
          => /\ Sends(out', "ACKACK")
             /\ ~InSeq(ConsumerIdOf(op'.msg), rreh'.consumer_queue)
             /\ ConsumerIdOf(op'.msg) \in rreh'.active_sessions
             /\ Sends(out', "GRID_STATUS")]_vars

\* C32: while the hub has a current target whose ACK deadline has not
\* passed, it sends no further JOIN_ACCEPT, whatever offers arrive and
\* sessions complete meanwhile.
C32_OneAcceptPerTarget ==
    [][(op'.node = Hub /\ Sends(out', "JOIN_ACCEPT"))
          => ~(rreh.current_target # None /\ now <= rreh.current_target_timeout)]_vars

\* C39: in IDLE the hub has no active session, and in CHARGE_SESSION it
\* has at least one.
C39_StateMatchesSessions ==
    /\ rreh.state = "IDLE" => rreh.active_sessions = {}
    /\ rreh.state = "CHARGE_SESSION" => rreh.active_sessions # {}

----------------------------------------------------------------------------
(* Claims on the ties of the energy routing (SpecR) *)

\* the paths without a repeated node
SimplePaths ==
    {p \in UNION {[1..n -> RNodes] : n \in 2..Cardinality(RNodes)} :
        \A i, j \in DOMAIN p : i # j => p[i] # p[j]}

\* the sum of the edge costs along a path
RECURSIVE CostAlong(_, _)
CostAlong(g, p) ==
    IF Len(p) < 2 THEN 0
    ELSE g[<<p[1], p[2]>>].edge_cost + CostAlong(g, Tail(p))

\* C40: of two candidate paths of equal cumulative cost to the same deficit
\* node, _dijkstra_to_sources returns the one with the higher cumulative
\* efficiency.
C40_EqualCostPrefersEfficiency ==
    (route.call = "_dijkstra_to_sources" /\ route.result.path # <<>>) =>
        LET g == route.edge_graph
            p == route.result.path
            mine == ProductAlong(g, p)
        IN  \A q \in SimplePaths :
                (/\ q[1] \in route.source_ids
                 /\ q[Len(q)] = route.target_id
                 /\ \A k \in PathEdges(q) : g[k].transfer_efficiency >= EDGE_MIN_EFFICIENCY
                 /\ CostAlong(g, q) = route.result.cost)
                  => LET other == ProductAlong(g, q)
                     IN  other.n * mine.d <= mine.n * other.d

----------------------------------------------------------------------------
(* Claims on the RWLock under a fair scheduler (SpecLF) *)

\* C38: a thread waiting in acquire_write obtains the write lock in the
\* end, when every holder gives the lock back in finite time.
C38_WriterNotStarved ==
    \A t \in LThreads :
        (lk.pc[t] \in {"aw_lock", "aw_check", "aw_wait"}) ~> (lk.pc[t] = "writing")

----------------------------------------------------------------------------
(* Claims on the consumer's retries (SpecC, SpecCF) *)

\* C33: a tick sends an ACK again only after the wait for the ACKACK of the
\* ACK sent before has timed out; a JOIN_OFFER retry still scheduled when
\* the JOIN_ACCEPT arrives does not fire after it.
C33_AckResentOnlyAfterTimeout ==
    [][\A c \in SoloConsumers :
          (op'.name = "tick" /\ op'.node = c /\ cstate[c] = "WAIT_ACKACK"
              /\ Sends(out', "ACK"))
            => now > session[c].timeout_time]_vars

\* the longest a handshake lasts from its first JOIN_OFFER to the blacklisting:
\* MAX_RETRIES + 1 waits for the JOIN_ACCEPT, the backoffs between them, and
\* one wait for an ACKACK after a JOIN_ACCEPT that came last of all, each
\* noticed by the first tick after it has run out
WaitHorizon ==
    (RETRY_MAX_RETRIES + 1) * (ACCEPT_TIMEOUT + 1)
    + (CalculateBackoff(0, RETRY_MAX_JITTER) + 1)
    + (CalculateBackoff(1, RETRY_MAX_JITTER) + 1)
    + (CalculateBackoff(2, RETRY_MAX_JITTER) + 1)
    + (ACKACK_TIMEOUT + 1)

\* C34: a consumer waiting for a provider that sends no ACKACK, with ticks
\* arriving and time advancing, returns to DISCOVER with that provider
\* blacklisted (a wait begun early enough to end within the explored time).
C34_SilentProviderBlacklisted ==
    \A c \in SoloConsumers, p \in Providers :
        (cstate[c] \in WaitStates /\ session[c].provider_id = p
            /\ now + WaitHorizon <= MaxTimeCF)
          ~> (cstate[c] = "DISCOVER" /\ blacklist[c][p] # NoTime)

\* the consumer is back in DISCOVER, its provider blacklisted after the
\* last retry, having sent its ACK on the way
C34_Witness ==
    \E c \in SoloConsumers, p \in Providers :
        /\ cstate[c] = "DISCOVER"
        /\ blacklist[c][p] = now + BLACKLIST_DURATION
        /\ op.name = "tick"
        /\ resends[c] > 0

----------------------------------------------------------------------------
(* Claims on the tables (SpecN) and the MPR flooding (SpecM) *)

\* C35: a node that has exchanged HELLOs with a neighbour A that selected it
\* as MPR re-broadcasts a PA with TTL > 0 it receives for the first time
\* with A as previous hop.
C35_SelectorPaForwarded ==
    [][(/\ op'.name = "rx" /\ op'.msg = "PA"
        /\ ~SeenBefore(NSelf, nt'.rx)
        /\ nt'.rx.ttl > 0
        /\ PreviousHopOf(nt'.rx) \in nt.selected_me
        /\ PreviousHopOf(nt'.rx) \in GetOneHopSet(nt))
          => Sends(out', "PA")]_vars

\* C36: the pruning of a table runs only within a write of that table, and
\* no sooner than PRUNE_INTERVAL after its previous run.
C36_PruneRateLimitedInWrites ==
    [][\A tbl \in {"neighbors", "providers"} :
          nt'.pruned = tbl =>
            /\ op'.name \in {"rx", "prune_stale", "update_provider"}
            /\ nt.since[tbl] = NoTime \/ nt.since[tbl] >= PRUNE_INTERVAL]_vars

\* C37: what a read of the NeighborTable returns, and the MPR set selected
\* from its snapshot, holds no neighbour last seen more than NEIGHBOR_TIMEOUT
\* ago.
C37_ReadsHoldNoStaleNeighbor ==
    /\ op.name = "get_snapshot"
          => \A n \in GetOneHopSet(nt) : now - nt.neighbors[n].last_seen <= NEIGHBOR_TIMEOUT
    /\ (op.name = "rx" /\ op.msg = "HELLO")
          => \A n \in mpr_set : now - nt.neighbors[n].last_seen <= NEIGHBOR_TIMEOUT

====
